---- MODULE Spec2Model ----
(***************************************************************************)
(* KAISA-Agents: the streaming <thinking> tag filter of the agents'        *)
(* stream_async generators and the turn lifecycle of the WebSocket handler *)
(* (stream_to_client_and_persist).                                         *)
(*                                                                         *)
(* Text is a sequence of one-character strings.  The generator of an agent *)
(* is a coroutine: pc is its position, chunk the value it has yielded and  *)
(* resume the position it continues from when the consumer asks for the    *)
(* next value.  The generator runs only while a consumer iterates over it: *)
(* the handler (hpc = "stream") or a plain loop that concatenates what it  *)
(* receives (hpc = "drain").                                               *)
(*                                                                         *)
(* async_handler is modelled per invocation (rpc is its position) over the *)
(* one DynamoDB table that holds session records and chat turns alike;     *)
(* invocations run one after the other (SpecRequest) or at once (SpecRace, *)
(* and SpecSameMs when their clocks may read the same millisecond).        *)
(*                                                                         *)
(* The tools of the quiz orchestrator work on quiz_table and session_table *)
(* (SpecQuiz, and SpecQuizRace when two invocations answer at once); the   *)
(* tools of the curriculum agent, get_curriculum_context and               *)
(* retrieve_from_kb, read the inner stream and the knowledge base          *)
(* (SpecContext; SpecBoth runs stream_async and get_curriculum_context on  *)
(* the same reply).  A tool call is at position tpc, and result holds what *)
(* it returned or that an exception left it.                               *)
(***************************************************************************)
EXTENDS Integers, Sequences, FiniteSets, TLC

VARIABLES
    agent,            \* the agent module selected for the turn
    text,             \* the model's whole response (fixed for a run)
    cuts,             \* the positions where the model stream may end a fragment
    pos,              \* number of characters the model stream has delivered
    buffer,           \* stream_async: buffer
    inside_thinking,  \* stream_async: inside_thinking
    pc,               \* stream_async: "next" | "scan" | "yield" | "ended" | "raised"
    resume,           \* where stream_async continues after a yield
    chunk,            \* the fragment handed over at a yield
    chunkSrc,         \* ghost: text positions <<from, to>> the fragment was cut from
    out,              \* ghost: concatenation of the fragments the generator yielded
    outIdx,           \* ghost: text positions of the characters yielded, in order
    yielded,          \* ghost: the fragments the handler received, in order
    hpc,              \* stream_to_client_and_persist: position of the handler
    events,           \* what post_to_connection has delivered to the client
    assistant_chunks, \* stream_to_client_and_persist: assistant_chunks
    agent_response,   \* stream_to_client_and_persist: agent_response
    saved,            \* assistant turns written by ChatRepository.save
    table,            \* the DynamoDB table (CHAT_TABLE): a set of items keyed by PK, SK
    now,              \* the clock datetime.now() reads, in ticks
    owner,            \* the invocation whose stream_to_client_and_persist is running
    mode,             \* "sequential" | "concurrent": how the invocations are scheduled
    faults,           \* whether the store and the channel may fail
    rpc,              \* async_handler: position of each invocation
    req,              \* async_handler: the request (event body) of each invocation
    session_id,       \* async_handler: session_id
    user_session,     \* async_handler: user_session
    chat_messages,    \* async_handler: chat_messages
    status,           \* async_handler: the statusCode returned (0: none yet)
    client,           \* the frames each invocation's connection has received
    puts,             \* ghost: the kinds of items each invocation has written
    clock,            \* "strict" | "coarse": whether two reads of the clock may agree
    stamped,          \* the invocations that have read the current value of the clock
    quiz_table,       \* quizzer_agent: quiz_table, items keyed by <<session_id, q_index>>
    session_table,    \* quizzer_agent: session_table, items keyed by session_id
    tpc,              \* position of each tool call in flight ("idle": none)
    call,             \* the tool each caller called last, with its arguments
    result,           \* what that call returned, or that it raised
    session_data,     \* evaluate_answer: session_data
    final_response    \* get_curriculum_context: final_response

filterVars == <<agent, text, cuts, pos, buffer, inside_thinking, pc, resume, chunk, chunkSrc>>
ghostVars == <<out, outIdx, yielded>>
handlerVars == <<hpc, events, assistant_chunks, agent_response, saved>>
invocationVars == <<rpc, req, session_id, user_session, chat_messages, status, client>>
storeVars == <<table, now, stamped, puts>>
toolVars == <<quiz_table, session_table, tpc, call, result, session_data, final_response>>
requestVars == <<table, now, stamped, puts, owner, mode, faults, clock, toolVars,
                 rpc, req, session_id, user_session, chat_messages, status, client>>
consumerVars == <<out, outIdx, yielded, hpc, events, assistant_chunks, agent_response, saved,
                  requestVars>>
vars == <<agent, text, cuts, pos, buffer, inside_thinking, pc, resume, chunk, chunkSrc,
          out, outIdx, yielded, hpc, events, assistant_chunks, agent_response, saved,
          table, now, stamped, puts, owner, mode, faults, clock, toolVars,
          rpc, req, session_id, user_session, chat_messages, status, client>>

-----------------------------------------------------------------------------
(* Bounds *)

\* Largest number of pieces a model response is assembled from.
MaxPieces == 3

\* Largest number of pieces the response of a modelled turn is assembled from.
MaxTurnPieces == 3

\* Number of invocations of the handler in a run of requests.
MaxRequests == 2
\* Number of tool calls of the quiz orchestrator that may be in flight.
MaxCallers == 2
\* Number of questions a quiz may be asked for, and of items the model returns.
MaxQuestions == 2
\* Number of tool calls that write to the quiz tables in a run.
MaxWrites == 3
\* Number of results the knowledge base returns for a query.
MaxResults == 2

-----------------------------------------------------------------------------
(* Program constants *)

\* len('<thinking>'), the literal 10 of the open-tag branch.
OpenLen == 10
\* len('</thinking>'), the literal 11 of the close-tag branch.
CloseLen == 11

OpenTag == <<"<", "t", "h", "i", "n", "k", "i", "n", "g", ">">>
CloseTag == <<"<", "/", "t", "h", "i", "n", "k", "i", "n", "g", ">">>

Agents == {"general", "curriculum", "quizzer", "reviewer"}

-----------------------------------------------------------------------------
(* Python string primitives *)

MinOf(S) == CHOOSE x \in S : \A y \in S : x <= y
MaxOf(S) == CHOOSE x \in S : \A y \in S : x >= y

\* str.lower() on one character (ASCII letters of the alphabet in use).
ToLower ==
    ("T" :> "t") @@ ("H" :> "h") @@ ("I" :> "i") @@ ("N" :> "n") @@
    ("K" :> "k") @@ ("G" :> "g") @@ ("A" :> "a") @@ ("B" :> "b")

LowerChar(c) == IF c \in DOMAIN ToLower THEN ToLower[c] ELSE c

\* s.lower()
Lower(s) == [i \in 1..Len(s) |-> LowerChar(s[i])]

\* s[k:] for 0 <= k
From(s, k) == IF k >= Len(s) THEN <<>> ELSE SubSeq(s, k + 1, Len(s))

\* s[:k] for 0 <= k
Upto(s, k) == IF k >= Len(s) THEN s ELSE SubSeq(s, 1, k)

\* s[-i:] for i >= 1
Last(s, i) == IF i >= Len(s) THEN s ELSE SubSeq(s, Len(s) - i + 1, Len(s))

\* s.find(t): the lowest 0-based index where t occurs in s, or -1
Find(s, t) ==
    LET hits == {k \in 0..(Len(s) - Len(t)) : SubSeq(s, k + 1, k + Len(t)) = t}
    IN  IF hits = {} THEN -1 ELSE MinOf(hits)

\* s.replace('\n', '<br>')
RECURSIVE ReplaceNl(_)
ReplaceNl(s) ==
    IF s = <<>> THEN <<>>
    ELSE (IF Head(s) = "\n" THEN <<"<", "b", "r", ">">> ELSE <<Head(s)>>)
            \o ReplaceNl(Tail(s))

\* Mutant of Convert: every agent converts newlines.
ConvertAll(a, s) == ReplaceNl(s)

\* What an agent does to a fragment before yielding it: quizzer_agent converts
\* newlines, the other three yield the slice as it is.
Convert(a, s) == IF a = "quizzer" THEN ReplaceNl(s) ELSE s

-----------------------------------------------------------------------------
(* The while-loop of stream_async *)

\* Mutant of OpenAt: the search forgets .lower().
OpenAtCaseSensitive(buf) == Find(buf, OpenTag)

\* start = buffer.lower().find('<thinking>')
OpenAt(buf) == Find(Lower(buf), OpenTag)

\* end = buffer.lower().find('</thinking>')
CloseAt(buf) == Find(Lower(buf), CloseTag)

\* Mutant of SafeEnd: always withhold the last 10 characters, whatever they are.
SafeEndFixed(buf) == IF Len(buf) > OpenLen THEN Len(buf) - OpenLen ELSE 0

\* Mutant of SafeEnd: the partial-tag comparison forgets .lower().
SafeEndCaseSensitive(buf) ==
    LET m == IF Len(buf) < OpenLen THEN Len(buf) ELSE OpenLen
        hits == {i \in 1..m : Last(buf, i) = Upto(OpenTag, i)}
    IN  IF hits = {} THEN Len(buf) ELSE Len(buf) - MaxOf(hits)

\* The for-loop over i = min(10, len(buffer)) .. 1 that looks for a partial
\* opening tag at the end of the buffer; safe_end is len(buffer) when none is.
SafeEnd(buf) ==
    LET m == IF Len(buf) < OpenLen THEN Len(buf) ELSE OpenLen
        hits == {i \in 1..m : Lower(Last(buf, i)) = Upto(OpenTag, i)}
    IN  IF hits = {} THEN Len(buf) ELSE Len(buf) - MaxOf(hits)

\* Mutant of KeepInside: the thinking content is never discarded.
KeepInsideAll(buf) == buf

\* The buffer kept while inside a thinking block and no closing tag is found.
KeepInside(buf) ==
    IF Len(buf) > CloseLen
    THEN LET m == IF Len(buf) < CloseLen THEN Len(buf) ELSE CloseLen
             hits == {i \in 1..m : Lower(Last(buf, i)) = Upto(CloseTag, i)}
         IN  IF hits = {} THEN Last(buf, CloseLen) ELSE Last(buf, MaxOf(hits))
    ELSE buf

\* Position in text of the first character of the buffer, less one: the
\* buffer is always the tail of what the model has delivered.
Base == pos - Len(buffer)

\* yield s, cut from buffer[:k]; the generator continues at r.
YieldSlice(k, r) ==
    /\ chunk' = Convert(agent, Upto(buffer, k))
    /\ chunkSrc' = <<Base + 1, Base + k>>
    /\ pc' = "yield"
    /\ resume' = r

NoYield(r) ==
    /\ pc' = r
    /\ UNCHANGED <<chunk, chunkSrc, resume>>

-----------------------------------------------------------------------------
(* Model responses *)

Pieces ==
    { OpenTag,
      CloseTag,
      <<"<", "T", "h", "i", "n", "k">>,
      <<"a", "\n">> }

RECURSIVE TextsOf(_, _)
TextsOf(P, n) ==
    IF n = 0 THEN {<<>>}
    ELSE LET T == TextsOf(P, n - 1) IN T \cup {t \o p : t \in T, p \in P}

\* "<thinking>hidden</thinking>visible"
HiddenVisible ==
    OpenTag \o <<"h", "i", "d", "d", "e", "n">> \o CloseTag
        \o <<"v", "i", "s", "i", "b", "l", "e">>

\* "<thinking>oops"
Oops == OpenTag \o <<"o", "o", "p", "s">>

\* "a <ThInKiNg>b</THINKING> c"
MixedCase ==
    <<"a", " ", "<", "T", "h", "I", "n", "K", "i", "N", "g", ">", "b">>
        \o <<"<", "/", "T", "H", "I", "N", "K", "I", "N", "G", ">", " ", "c">>

\* "<thinking>ab</thI</thinking>c"
PartialClose ==
    OpenTag \o <<"a", "b", "<", "/", "t", "h", "I">> \o CloseTag \o <<"c">>

\* "a<thinking>b</thinking>c<thinking>d</thinking>e"
TwoSpans ==
    <<"a">> \o OpenTag \o <<"b">> \o CloseTag \o <<"c">> \o OpenTag \o <<"d">>
        \o CloseTag \o <<"e">>

\* "<thin<thinking>x</thinking>king>"
Joined ==
    <<"<", "t", "h", "i", "n">> \o OpenTag \o <<"x">> \o CloseTag
        \o <<"k", "i", "n", "g", ">">>

Texts ==
    TextsOf(Pieces, MaxPieces)
        \cup {HiddenVisible, Oops, MixedCase, PartialClose, TwoSpans, Joined}

\* The responses of the turn specification: their fragments end where a piece ends.
TurnPieces == { <<"a">>, <<" ">>, <<"\n">>, OpenTag, CloseTag }

RECURSIVE CutsOf(_, _)
CutsOf(P, n) ==
    IF n = 0 THEN {[text |-> <<>>, cuts |-> {}]}
    ELSE LET T == CutsOf(P, n - 1)
         IN  T \cup {[text |-> t.text \o p, cuts |-> t.cuts \cup {Len(t.text \o p)}] :
                        t \in T, p \in P}

-----------------------------------------------------------------------------
(* The DynamoDB table behind ChatRepository and UserSessionRepository *)

\* Both repositories are given the table named by CHAT_TABLE, so session
\* records and chat turns share one table and, keyed by PK = session_id, one
\* partition.  An item carries the attributes write() stores; title "" and
\* message_count -1 stand for an attribute that is not stored.
NoTitle == ""
NoCount == -1

\* The invocations (Lambda executions) of a run.
Procs == 1..MaxRequests

\* UserSessionRepository.initialize_user_session
NewSession(uid, sid, ts) ==
    [user_id |-> uid, session_id |-> sid, timestamp |-> ts, title |-> "New Chat",
     session_summary |-> "", message_count |-> 0]

\* None
NoSession ==
    [user_id |-> "", session_id |-> "", timestamp |-> 0, title |-> NoTitle,
     session_summary |-> "", message_count |-> NoCount]

\* write() applied to a UserSession: no role or message attribute, so both are ''.
SessionItem(us) ==
    [PK |-> us.session_id, SK |-> us.timestamp, user_id |-> us.user_id,
     role |-> "", message |-> <<>>,
     title |-> us.title, session_summary |-> us.session_summary,
     message_count |-> us.message_count]

\* write() applied to a Chat built by initialize_chat_user / initialize_chat_agent.
ChatItem(uid, sid, ts, role, message) ==
    [PK |-> sid, SK |-> ts, user_id |-> uid, role |-> role, message |-> message,
     title |-> NoTitle, session_summary |-> "", message_count |-> NoCount]

\* Mutant of PutItem: an item with the same key is kept beside the new one.
PutItemKeepingOld(t, item) == t \cup {item}

\* put_item: an item with the same PK and SK is replaced.
PutItem(t, item) == {i \in t : ~(i.PK = item.PK /\ i.SK = item.SK)} \cup {item}

Partition(t, pk) == {i \in t : i.PK = pk}

\* The items of a partition in ascending order of SK.
RECURSIVE Ascending(_)
Ascending(S) ==
    IF S = {} THEN <<>>
    ELSE LET first == CHOOSE i \in S : \A j \in S : i.SK <= j.SK
         IN  <<first>> \o Ascending(S \ {first})

Reversed(s) == [i \in 1..Len(s) |-> s[Len(s) + 1 - i]]

\* query(hash_key, scan_index_forward, limit)
Query(t, pk, scan_index_forward, limit) ==
    LET asc == Ascending(Partition(t, pk))
        all == IF scan_index_forward THEN asc ELSE Reversed(asc)
    IN  Upto(all, limit)

\* UserSession(**data) on an item read back: title is a required key.
AsSession(item) ==
    [user_id |-> item.user_id, session_id |-> item.PK, timestamp |-> item.SK,
     title |-> item.title,
     session_summary |-> item.session_summary,
     message_count |-> IF item.message_count = NoCount THEN 0 ELSE item.message_count]

\* What a store or channel call may do: succeed, or fail when faults are on.
Outcomes == IF faults THEN BOOLEAN ELSE {TRUE}

\* datetime.now() formatted to the millisecond.  Two invocations run on
\* different machines and may read the same millisecond (clock = "coarse");
\* an invocation never reads the same millisecond twice, since a call to
\* the model or to the store lies between two of its reads.
Sames == IF clock = "coarse" THEN BOOLEAN ELSE {FALSE}
Stamp(p) == IF p \in stamped THEN now + 1 ELSE now
Tick(p, same) ==
    /\ now' = IF same THEN Stamp(p) ELSE Stamp(p) + 1
    /\ stamped' = IF ~same THEN {}
                  ELSE IF p \in stamped THEN {p} ELSE stamped \cup {p}

-----------------------------------------------------------------------------
(* Requests *)

\* A key the request body does not carry.
NoField == "<missing>"

\* The event of an invocation: whether the body parses as JSON, whether the
\* requestContext names the connection, and the fields async_handler reads.
Request(uid, uin, sid, ag) ==
    [json_ok |-> TRUE, ws_ok |-> TRUE, user_id |-> uid, user_input |-> uin,
     session_id |-> sid, agent |-> ag]

\* A body that is not JSON; no field can be read from it.
BadJson ==
    [json_ok |-> FALSE, ws_ok |-> TRUE, user_id |-> NoField, user_input |-> <<>>,
     session_id |-> NoField, agent |-> NoField]

\* A well-formed body in an event without connectionId, domainName or stage.
BadContext ==
    [json_ok |-> TRUE, ws_ok |-> FALSE, user_id |-> "u1", user_input |-> <<"q">>,
     session_id |-> NoField, agent |-> NoField]

\* No invocation yet.
NoRequest ==
    [json_ok |-> FALSE, ws_ok |-> FALSE, user_id |-> NoField, user_input |-> <<>>,
     session_id |-> NoField, agent |-> NoField]

\* Mutant of Falsy: only a missing key counts, an empty value is accepted.
FalsyMissingOnly(x) == x = NoField

\* if not x, for a string field: the key is missing or its value is empty
Falsy(x) == x \in {NoField, ""}

\* CONTEXT_WINDOW = int(os.getenv("CONTEXT_WINDOW", 8)), here configured small.
CONTEXT_WINDOW == 1

\* UserSessionRepository.construct_session_id: user_id and a random part,
\* taken to differ from every id in use.
NewId(p) == IF p = 1 THEN "u1-a" ELSE IF p = 2 THEN "u1-b" ELSE "u1-c"

\* A session that exists before the run: its record, a rolling summary and
\* one earlier exchange.
S1Table ==
    { SessionItem([user_id |-> "u1", session_id |-> "s1", timestamp |-> 1, title |-> "New Chat",
                   session_summary |-> "S", message_count |-> 1]),
      ChatItem("u1", "s1", 2, "user", <<"q">>),
      ChatItem("u1", "s1", 3, "assistant", <<"a">>) }

\* The responses the model streams in a run of requests, with the ends of
\* their fragments.
RequestTexts ==
    IF clock = "coarse"
    THEN { [text |-> OpenTag \o <<"b">> \o CloseTag \o <<" ", "a">>, cuts |-> {11, 24}] }
    ELSE { [text |-> <<"a">>, cuts |-> {1}],
           [text |-> OpenTag \o <<"b">> \o CloseTag \o <<" ", "a">>, cuts |-> {11, 24}] }

-----------------------------------------------------------------------------
(* The tables behind the quiz tools *)

\* The orchestrator's tool calls that may be in flight.
Callers == 1..MaxCallers

\* The one quiz session id in use.
QuizIds == {"z1"}

\* str.upper() on one character (ASCII letters of the alphabet in use).
ToUpper == ("a" :> "A") @@ ("b" :> "B")
UpperChar(c) == IF c \in DOMAIN ToUpper THEN ToUpper[c] ELSE c
Upper(s) == [i \in 1..Len(s) |-> UpperChar(s[i])]

\* An attribute that an item does not carry: answered_at 0, and "" or <<>>
\* for the others.
NoTime == 0

\* An empty table.
NoItems == [k \in {} |-> {}]

\* put_item: the item stored under the key is replaced as a whole.
PutAt(t, key, item) == [k \in DOMAIN t \cup {key} |-> IF k = key THEN item ELSE t[k]]

\* The item db_save_quiz writes for one generated question (topic, grade and
\* created_at are the same for all and left out).
QuestionItem(q) ==
    [question |-> q.question, correct |-> q.correct,
     user_answer |-> <<>>, score_status |-> "", answered_at |-> NoTime]

\* The item update_item starts from when the key holds none.
BlankQuestion ==
    [question |-> NoField, correct |-> <<>>,
     user_answer |-> <<>>, score_status |-> "", answered_at |-> NoTime]

\* db_save_quiz, up to and including its n-th put_item.
db_save_quiz(t, session_id_, quiz_items, n) ==
    [k \in DOMAIN t \cup {<<session_id_, i - 1>> : i \in 1..n} |->
        IF k[1] = session_id_ /\ k[2] < n THEN QuestionItem(quiz_items[k[2] + 1]) ELSE t[k]]

\* db_update_question_answer: update_item sets the three answer attributes of
\* the item under the key, creating the item when there is none.
db_update_question_answer(t, session_id_, q_index, user_answer, is_correct, ts) ==
    LET key == <<session_id_, q_index>>
        old == IF key \in DOMAIN t THEN t[key] ELSE BlankQuestion
    IN  PutAt(t, key, [old EXCEPT !.user_answer = Upper(user_answer),
                                  !.score_status = IF is_correct THEN "correct" ELSE "wrong",
                                  !.answered_at = ts])

\* db_create_session: put_item of a fresh session record (topic, grade, history
\* and started_at left out).
db_create_session(t, session_id_, total_questions, ts) ==
    PutAt(t, session_id_,
          [current_question |-> 0, total_questions |-> total_questions, score |-> 0,
           state |-> "in_progress", updated_at |-> ts])

\* The item update_item starts from when the session table holds none.
BlankSession ==
    [current_question |-> NoCount, total_questions |-> NoCount, score |-> NoCount,
     state |-> "", updated_at |-> NoTime]

\* db_update_session_progress with score, current_question and state given.
db_update_session_progress(t, session_id_, score, current_question, state, ts) ==
    LET old == IF session_id_ \in DOMAIN t THEN t[session_id_] ELSE BlankSession
    IN  PutAt(t, session_id_, [old EXCEPT !.score = score,
                                          !.current_question = current_question,
                                          !.state = state,
                                          !.updated_at = ts])

\* int(session.get(name, 0))
IntOr0(n) == IF n = NoCount THEN 0 ELSE n

\* Mutant of db_get_session: the progress reported is one question ahead.
db_get_sessionAhead(t, session_id_) ==
    IF session_id_ \notin DOMAIN t
    THEN [kind |-> "error", message |-> "Session not found"]
    ELSE [kind |-> "ok", session_id |-> session_id_, state |-> t[session_id_].state,
          current_question |-> IntOr0(t[session_id_].current_question) + 1,
          total_questions |-> IntOr0(t[session_id_].total_questions),
          score |-> IntOr0(t[session_id_].score),
          updated_at |-> t[session_id_].updated_at]

\* db_get_session, once get_item has answered.
db_get_session(t, session_id_) ==
    IF session_id_ \notin DOMAIN t
    THEN [kind |-> "error", message |-> "Session not found"]
    ELSE [kind |-> "ok", session_id |-> session_id_, state |-> t[session_id_].state,
          current_question |-> IntOr0(t[session_id_].current_question),
          total_questions |-> IntOr0(t[session_id_].total_questions),
          score |-> IntOr0(t[session_id_].score),
          updated_at |-> t[session_id_].updated_at]

\* db_get_question, once get_item has answered.
db_get_question(t, session_id_, q_index) ==
    IF <<session_id_, q_index>> \notin DOMAIN t
    THEN [kind |-> "error", message |-> "Question not found"]
    ELSE [kind |-> "ok", question |-> t[<<session_id_, q_index>>].question,
          correct |-> t[<<session_id_, q_index>>].correct,
          user_answer |-> t[<<session_id_, q_index>>].user_answer]

NoCall == [tool |-> "none"]
NoResult == [kind |-> "none"]
\* An exception that leaves the tool.
Raised == [kind |-> "raised"]

\* No tool has been called and the quiz tables are empty.
InitTools ==
    /\ quiz_table = NoItems
    /\ session_table = NoItems
    /\ tpc = [c \in Callers |-> "idle"]
    /\ call = [c \in Callers |-> NoCall]
    /\ result = [c \in Callers |-> NoResult]
    /\ session_data = [c \in Callers |-> NoResult]
    /\ final_response = <<>>

-----------------------------------------------------------------------------
(* stream_async *)

\* One invocation, already inside stream_to_client_and_persist, on an empty table.
InitStore ==
    /\ table = {}
    /\ now = 1
    /\ clock = "strict"
    /\ stamped = {}
    /\ InitTools
    /\ owner = 1
    /\ mode = "sequential"
    /\ faults = TRUE
    /\ rpc = [p \in Procs |-> IF p = 1 THEN "streaming" ELSE "idle"]
    /\ req = [p \in Procs |-> NoRequest]
    /\ session_id = [p \in Procs |-> IF p = 1 THEN "s1" ELSE ""]
    /\ user_session = [p \in Procs |-> NoSession]
    /\ chat_messages = [p \in Procs |-> <<>>]
    /\ status = [p \in Procs |-> 0]
    /\ client = [p \in Procs |-> <<>>]
    /\ puts = [p \in Procs |-> <<>>]

InitFilter ==
    /\ pos = 0
    /\ buffer = <<>>
    /\ inside_thinking = FALSE
    /\ pc = "next"
    /\ resume = "next"
    /\ chunk = <<>>
    /\ chunkSrc = <<1, 0>>
    /\ out = <<>>
    /\ outIdx = <<>>
    /\ yielded = <<>>
    /\ events = <<>>
    /\ assistant_chunks = <<>>
    /\ agent_response = <<>>
    /\ saved = <<>>

\* The generator runs while its consumer iterates over it.
Pulled == hpc \in {"drain", "stream"}

\* async for chunk in agent.stream_async(...): buffer += data
NextChunk(n) ==
    /\ Pulled
    /\ pc = "next"
    /\ pos + n \in cuts
    /\ buffer' = buffer \o SubSeq(text, pos + 1, pos + n)
    /\ pos' = pos + n
    /\ pc' = "scan"
    /\ UNCHANGED <<agent, text, cuts, inside_thinking, resume, chunk, chunkSrc>>
    /\ UNCHANGED consumerVars

\* not inside_thinking, start != -1
OpenFound ==
    /\ Pulled
    /\ pc = "scan"
    /\ ~inside_thinking
    /\ OpenAt(buffer) # -1
    /\ LET start == OpenAt(buffer) IN
        /\ IF start > 0 THEN YieldSlice(start, "scan") ELSE NoYield("scan")
        /\ buffer' = From(buffer, start + OpenLen)
    /\ inside_thinking' = TRUE
    /\ UNCHANGED <<agent, text, cuts, pos>>
    /\ UNCHANGED consumerVars

\* Mutant of OpenNotFound: the break is missing.
OpenNotFoundNoBreak ==
    /\ Pulled
    /\ pc = "scan"
    /\ ~inside_thinking
    /\ OpenAt(buffer) = -1
    /\ LET safe_end == SafeEnd(buffer) IN
        IF safe_end > 0
        THEN /\ YieldSlice(safe_end, "scan")
             /\ buffer' = From(buffer, safe_end)
        ELSE /\ NoYield("scan")
             /\ buffer' = buffer
    /\ UNCHANGED <<agent, text, cuts, pos, inside_thinking>>
    /\ UNCHANGED consumerVars

\* not inside_thinking, start == -1
OpenNotFound ==
    /\ Pulled
    /\ pc = "scan"
    /\ ~inside_thinking
    /\ OpenAt(buffer) = -1
    /\ LET safe_end == SafeEnd(buffer) IN
        IF safe_end > 0
        THEN /\ YieldSlice(safe_end, "next")
             /\ buffer' = From(buffer, safe_end)
        ELSE /\ NoYield("next")
             /\ buffer' = buffer
    /\ UNCHANGED <<agent, text, cuts, pos, inside_thinking>>
    /\ UNCHANGED consumerVars

\* Mutant of CloseFound: the closing tag stays in the buffer.
CloseFoundKeepTag ==
    /\ Pulled
    /\ pc = "scan"
    /\ inside_thinking
    /\ CloseAt(buffer) # -1
    /\ buffer' = From(buffer, CloseAt(buffer))
    /\ inside_thinking' = FALSE
    /\ NoYield("scan")
    /\ UNCHANGED <<agent, text, cuts, pos>>
    /\ UNCHANGED consumerVars

\* inside_thinking, end != -1
CloseFound ==
    /\ Pulled
    /\ pc = "scan"
    /\ inside_thinking
    /\ CloseAt(buffer) # -1
    /\ buffer' = From(buffer, CloseAt(buffer) + CloseLen)
    /\ inside_thinking' = FALSE
    /\ NoYield("scan")
    /\ UNCHANGED <<agent, text, cuts, pos>>
    /\ UNCHANGED consumerVars

\* inside_thinking, end == -1
CloseNotFound ==
    /\ Pulled
    /\ pc = "scan"
    /\ inside_thinking
    /\ CloseAt(buffer) = -1
    /\ buffer' = KeepInside(buffer)
    /\ NoYield("next")
    /\ UNCHANGED <<agent, text, cuts, pos, inside_thinking>>
    /\ UNCHANGED consumerVars

\* Mutant of Flush: the remaining buffer is never flushed.
FlushNothing ==
    /\ Pulled
    /\ pc = "next"
    /\ pos = Len(text)
    /\ NoYield("ended")
    /\ UNCHANGED <<agent, text, cuts, pos, buffer, inside_thinking>>
    /\ UNCHANGED consumerVars

\* Mutant of Flush: the remaining buffer is flushed inside a thinking block too.
FlushAlways ==
    /\ Pulled
    /\ pc = "next"
    /\ pos = Len(text)
    /\ IF buffer # <<>>
       THEN YieldSlice(Len(buffer), "ended")
       ELSE NoYield("ended")
    /\ UNCHANGED <<agent, text, cuts, pos, buffer, inside_thinking>>
    /\ UNCHANGED consumerVars

\* The model stream is exhausted: flush the remaining buffer.
Flush ==
    /\ Pulled
    /\ pc = "next"
    /\ pos = Len(text)
    /\ IF buffer # <<>> /\ ~inside_thinking
       THEN YieldSlice(Len(buffer), "ended")
       ELSE NoYield("ended")
    /\ UNCHANGED <<agent, text, cuts, pos, buffer, inside_thinking>>
    /\ UNCHANGED consumerVars

\* The positions of text a fragment cut from chunkSrc covers.
SrcIdx == [i \in 1..(chunkSrc[2] - chunkSrc[1] + 1) |-> chunkSrc[1] + i - 1]

\* The consumer takes the yielded fragment and asks for the next one.
TakeChunk ==
    /\ out' = out \o chunk
    /\ outIdx' = outIdx \o SrcIdx
    /\ pc' = resume
    /\ chunk' = <<>>
    /\ chunkSrc' = <<1, 0>>
    /\ UNCHANGED <<agent, text, cuts, pos, buffer, inside_thinking, resume>>

\* A consumer that only concatenates what the generator yields.
Drain ==
    /\ hpc = "drain"
    /\ pc = "yield"
    /\ TakeChunk
    /\ UNCHANGED <<yielded, hpc, events, assistant_chunks, agent_response, saved>>
    /\ UNCHANGED requestVars

Init ==
    /\ agent \in Agents
    /\ text \in Texts
    /\ cuts = 1..Len(text)
    /\ hpc = "drain"
    /\ InitFilter
    /\ InitStore

Next ==
    \/ \E n \in 1..(Len(text) - pos) : NextChunk(n)
    \/ OpenFound
    \/ OpenNotFound
    \/ CloseFound
    \/ CloseNotFound
    \/ Flush
    \/ Drain

Spec == Init /\ [][Next]_vars

-----------------------------------------------------------------------------
(* stream_to_client_and_persist *)

\* str.isspace() on one character of the alphabet in use.
IsSpace(c) == c \in {" ", "\n"}

\* s.strip(): s without its leading and trailing whitespace.
Strip(s) ==
    LET keep == {i \in 1..Len(s) : ~IsSpace(s[i])}
    IN  IF keep = {} THEN <<>> ELSE SubSeq(s, MinOf(keep), MaxOf(keep))

\* if chunk_text and chunk_text.strip():
Deliverable(chunk_text) == chunk_text # <<>> /\ Strip(chunk_text) # <<>>

\* "".join(chunks)
RECURSIVE Join(_)
Join(chunks) == IF chunks = <<>> THEN <<>> ELSE Head(chunks) \o Join(Tail(chunks))

\* The frames post_to_connection sends.
StartOfMessage == [type |-> "start_of_message", agent_response |-> <<>>]
InProgress(chunk_text) == [type |-> "in_progress", agent_response |-> chunk_text]
EndOfMessage == [type |-> "end_of_message", agent_response |-> <<>>]
ErrorFrame == [type |-> "error", error |-> "stream_exc"]

\* Mark start to client; post_to_connection returns (ok) or raises.
PostStart(ok) ==
    /\ hpc = "start"
    /\ IF ok
       THEN /\ events' = Append(events, StartOfMessage)
            /\ hpc' = "stream"
       ELSE /\ events' = events
            /\ hpc' = "except"
    /\ UNCHANGED filterVars
    /\ UNCHANGED <<out, outIdx, yielded, assistant_chunks, agent_response, saved>>
    /\ UNCHANGED requestVars

\* The model stream raises while stream_async waits for its next chunk; the
\* exception passes through the generator into the handler's except clause.
StreamRaises ==
    /\ faults
    /\ hpc = "stream"
    /\ pc = "next"
    /\ pos < Len(text)
    /\ pc' = "raised"
    /\ hpc' = "except"
    /\ UNCHANGED <<agent, text, cuts, pos, buffer, inside_thinking, resume, chunk, chunkSrc>>
    /\ UNCHANGED <<out, outIdx, yielded, events, assistant_chunks, agent_response, saved>>
    /\ UNCHANGED requestVars

\* Mutant of LoopBody: the increment is put in front of what was delivered.
LoopBodyPrepend(ok) ==
    /\ hpc = "stream"
    /\ pc = "yield"
    /\ TakeChunk
    /\ yielded' = Append(yielded, chunk)
    /\ IF Deliverable(chunk)
       THEN IF ok
            THEN /\ events' = <<InProgress(chunk)>> \o events
                 /\ assistant_chunks' = Append(assistant_chunks, chunk)
                 /\ hpc' = hpc
            ELSE /\ hpc' = "except"
                 /\ UNCHANGED <<events, assistant_chunks>>
       ELSE /\ ok
            /\ UNCHANGED <<hpc, events, assistant_chunks>>
    /\ UNCHANGED <<agent_response, saved>>
    /\ UNCHANGED requestVars

\* One pass of the body of "async for chunk in agent_module.stream_async(payload)".
LoopBody(ok) ==
    /\ hpc = "stream"
    /\ pc = "yield"
    /\ TakeChunk
    /\ yielded' = Append(yielded, chunk)
    /\ IF Deliverable(chunk)
       THEN IF ok
            THEN /\ events' = Append(events, InProgress(chunk))
                 /\ assistant_chunks' = Append(assistant_chunks, chunk)
                 /\ hpc' = hpc
            ELSE /\ hpc' = "except"
                 /\ UNCHANGED <<events, assistant_chunks>>
       ELSE /\ ok
            /\ UNCHANGED <<hpc, events, assistant_chunks>>
    /\ UNCHANGED <<agent_response, saved>>
    /\ UNCHANGED requestVars

\* The generator is exhausted: mark completion to client.
PostEnd(ok) ==
    /\ hpc = "stream"
    /\ pc = "ended"
    /\ IF ok
       THEN /\ events' = Append(events, EndOfMessage)
            /\ hpc' = "persist"
       ELSE /\ events' = events
            /\ hpc' = "except"
    /\ UNCHANGED filterVars
    /\ UNCHANGED <<out, outIdx, yielded, assistant_chunks, agent_response, saved>>
    /\ UNCHANGED requestVars

\* agent_response = "".join(assistant_chunks); ChatRepository.save; return.
Persist(ok) ==
    /\ hpc = "persist"
    /\ agent_response' = Join(assistant_chunks)
    /\ \E same \in Sames : Tick(owner, same)
    /\ IF ok
       THEN /\ saved' = Append(saved, agent_response')
            /\ table' = PutItem(table,
                            ChatItem(req[owner].user_id, session_id[owner], Stamp(owner),
                                     "assistant",
                                     agent_response'))
            /\ puts' = [puts EXCEPT ![owner] = Append(@, "assistant")]
            /\ hpc' = "returned"
       ELSE /\ saved' = saved
            /\ UNCHANGED <<table, puts>>
            /\ hpc' = "except"
    /\ UNCHANGED filterVars
    /\ UNCHANGED <<out, outIdx, yielded, events, assistant_chunks>>
    /\ UNCHANGED <<owner, mode, faults, clock, toolVars>>
    /\ UNCHANGED invocationVars

\* Mutant of Except: the failure is swallowed and the handler returns.
ExceptReturns(ok) ==
    /\ hpc = "except"
    /\ events' = IF ok THEN Append(events, ErrorFrame) ELSE events
    /\ hpc' = "returned"
    /\ UNCHANGED filterVars
    /\ UNCHANGED <<out, outIdx, yielded, assistant_chunks, agent_response, saved>>
    /\ UNCHANGED requestVars

\* except Exception: try to post the error frame, then re-raise.
Except(ok) ==
    /\ hpc = "except"
    /\ events' = IF ok THEN Append(events, ErrorFrame) ELSE events
    /\ hpc' = "raised"
    /\ UNCHANGED filterVars
    /\ UNCHANGED <<out, outIdx, yielded, assistant_chunks, agent_response, saved>>
    /\ UNCHANGED requestVars

InitTurn ==
    /\ agent \in Agents
    /\ \E r \in CutsOf(TurnPieces, MaxTurnPieces) : text = r.text /\ cuts = r.cuts
    /\ hpc = "start"
    /\ InitFilter
    /\ InitStore

NextTurn ==
    \/ \E ok \in BOOLEAN : PostStart(ok)
    \/ \E n \in 1..(Len(text) - pos) : NextChunk(n)
    \/ OpenFound
    \/ OpenNotFound
    \/ CloseFound
    \/ CloseNotFound
    \/ Flush
    \/ StreamRaises
    \/ \E ok \in BOOLEAN : LoopBody(ok)
    \/ \E ok \in BOOLEAN : PostEnd(ok)
    \/ \E ok \in BOOLEAN : Persist(ok)
    \/ \E ok \in BOOLEAN : Except(ok)

SpecTurn == InitTurn /\ [][NextTurn]_vars

-----------------------------------------------------------------------------
(* async_handler *)

\* The frames ChatRepository.push_to_client sends.
ErrorPush(p, msg) == [error |-> msg, connectionId |-> p]
AckPush(p) == [message |-> "processing", connectionId |-> p]
ContextPush(p, sid, uid, msgs) ==
    [session_id |-> sid, user_id |-> uid, chat_messages |-> msgs, connectionId |-> p]

\* push_to_client: the frame arrives (sent), or the call returns without
\* sending or swallows the exception of post_to_connection.
Push(p, frame, sent) ==
    client' = [client EXCEPT ![p] = IF sent THEN Append(@, frame) ELSE @]

\* return {"statusCode": code, ...}
Return(p, code) ==
    /\ status' = [status EXCEPT ![p] = code]
    /\ rpc' = [rpc EXCEPT ![p] = "done"]

\* The requests an invocation may be given.
Requests ==
    IF mode = "concurrent"
    THEN {Request("u1", <<"q">>, "s1", "general")}
    ELSE {BadJson, BadContext,
          Request("", <<"q">>, NoField, NoField),
          Request("u1", <<>>, NoField, NoField)}
         \cup {Request("u1", <<"q">>, sid, ag) :
                  sid \in {NoField, "s9"} \cup {i.PK : i \in table},
                  ag \in {NoField, "bogus"} \cup Agents}
         \cup {Request("u2", <<"q">>, sid, "general") : sid \in {i.PK : i \in table}}

\* The state of a stream_to_client_and_persist that has not been pulled yet.
ResetTurn(a, t, c, h) ==
    /\ agent' = a
    /\ text' = t
    /\ cuts' = c
    /\ hpc' = h
    /\ pos' = 0
    /\ buffer' = <<>>
    /\ inside_thinking' = FALSE
    /\ pc' = "next"
    /\ resume' = "next"
    /\ chunk' = <<>>
    /\ chunkSrc' = <<1, 0>>
    /\ out' = <<>>
    /\ outIdx' = <<>>
    /\ yielded' = <<>>
    /\ events' = <<>>
    /\ assistant_chunks' = <<>>
    /\ agent_response' = <<>>
    /\ saved' = <<>>

turnVars == <<agent, text, cuts, pos, buffer, inside_thinking, pc, resume, chunk, chunkSrc,
              out, outIdx, yielded, hpc, events, assistant_chunks, agent_response, saved>>

\* What is left of the invocations that have returned when the next one
\* starts: in a sequence of requests, nothing but what they wrote to the table.
Cleared(f, initial) == IF mode = "sequential" THEN [q \in Procs |-> initial] ELSE f

\* The invocation starts: parse the body, read the requestContext, check the
\* required fields, send the processing acknowledgment.
Receive(p, sent) ==
    /\ rpc[p] = "idle"
    /\ mode = "concurrent" \/ \A q \in Procs : q < p => rpc[q] = "done"
    /\ \E r \in Requests :
        /\ req' = [Cleared(req, NoRequest) EXCEPT ![p] = r]
        /\ IF ~r.json_ok \/ ~r.ws_ok
           THEN /\ sent
                /\ client' = Cleared(client, <<>>)
                /\ status' = [Cleared(status, 0) EXCEPT ![p] = 400]
                /\ rpc' = [rpc EXCEPT ![p] = "done"]
                /\ session_id' = Cleared(session_id, "")
           ELSE IF Falsy(r.user_id) \/ r.user_input = <<>>
           THEN /\ client' = [Cleared(client, <<>>) EXCEPT ![p] =
                                IF sent
                                THEN <<ErrorPush(p, "Missing user_id or user_input")>>
                                ELSE <<>>]
                /\ status' = [Cleared(status, 0) EXCEPT ![p] = 400]
                /\ rpc' = [rpc EXCEPT ![p] = "done"]
                /\ session_id' = Cleared(session_id, "")
           ELSE /\ client' = [Cleared(client, <<>>) EXCEPT ![p] =
                                IF sent THEN <<AckPush(p)>> ELSE <<>>]
                /\ status' = Cleared(status, 0)
                /\ session_id' = [Cleared(session_id, "") EXCEPT ![p] = r.session_id]
                /\ rpc' = [rpc EXCEPT ![p] = "session"]
    /\ user_session' = Cleared(user_session, NoSession)
    /\ chat_messages' = Cleared(chat_messages, <<>>)
    /\ puts' = Cleared(puts, <<>>)
    /\ UNCHANGED <<table, now, stamped, owner, mode, faults, clock, toolVars>>
    /\ UNCHANGED turnVars

\* Mutant of ResolveSession: a session_id that is not found is created.
ResolveSessionUpsert(p, ok, sent) ==
    /\ rpc[p] = "session"
    /\ LET known == ~Falsy(session_id[p]) /\ Query(table, session_id[p], TRUE, 1) # <<>>
           sid == IF Falsy(session_id[p]) THEN NewId(p) ELSE session_id[p]
           us == IF known THEN AsSession(Query(table, session_id[p], TRUE, 1)[1])
                 ELSE NewSession(req[p].user_id, sid, now)
       IN  /\ session_id' = [session_id EXCEPT ![p] = sid]
           /\ user_session' = [user_session EXCEPT ![p] = us]
           /\ now' = IF known THEN now ELSE now + 1
           /\ stamped' = IF known THEN stamped ELSE {}
           /\ IF ok
              THEN /\ sent
                   /\ table' = IF known THEN table ELSE PutItem(table, SessionItem(us))
                   /\ puts' = IF known THEN puts
                              ELSE [puts EXCEPT ![p] = Append(@, "session")]
                   /\ rpc' = [rpc EXCEPT ![p] = "save_user"]
                   /\ UNCHANGED <<status, client>>
              ELSE /\ Push(p, ErrorPush(p, "sess_exc"), sent)
                   /\ Return(p, 500)
                   /\ UNCHANGED <<table, puts>>
    /\ UNCHANGED <<req, chat_messages, owner, mode, faults, clock, toolVars>>
    /\ UNCHANGED turnVars

\* Session handling: look the session up, or create and save a new one.
ResolveSession(p, ok, sent) ==
    /\ rpc[p] = "session"
    /\ IF ~Falsy(session_id[p])
       THEN LET found == Query(table, session_id[p], TRUE, 1) IN
            /\ IF ~ok \/ (found # <<>> /\ found[1].title = NoTitle)
               THEN /\ Push(p, ErrorPush(p, "sess_exc"), sent)
                    /\ Return(p, 500)
                    /\ UNCHANGED user_session
               ELSE IF found = <<>>
               THEN /\ Push(p, ErrorPush(p, "Session not found"), sent)
                    /\ Return(p, 404)
                    /\ UNCHANGED user_session
               ELSE /\ sent
                    /\ user_session' = [user_session EXCEPT ![p] = AsSession(found[1])]
                    /\ rpc' = [rpc EXCEPT ![p] = "save_user"]
                    /\ UNCHANGED <<status, client>>
            /\ UNCHANGED <<session_id, table, now, stamped, puts>>
       ELSE LET us == NewSession(req[p].user_id, NewId(p), now) IN
            /\ session_id' = [session_id EXCEPT ![p] = NewId(p)]
            /\ user_session' = [user_session EXCEPT ![p] = us]
            /\ now' = now + 1
            /\ stamped' = {}
            /\ IF ok
               THEN /\ sent
                    /\ table' = PutItem(table, SessionItem(us))
                    /\ puts' = [puts EXCEPT ![p] = Append(@, "session")]
                    /\ rpc' = [rpc EXCEPT ![p] = "save_user"]
                    /\ UNCHANGED <<status, client>>
               ELSE /\ Push(p, ErrorPush(p, "sess_exc"), sent)
                    /\ Return(p, 500)
                    /\ UNCHANGED <<table, puts>>
    /\ UNCHANGED <<req, chat_messages, owner, mode, faults, clock, toolVars>>
    /\ UNCHANGED turnVars

\* Mutant of SaveUser: the user turn is not written.
SaveUserUnsaved(p, ok, sent) ==
    /\ rpc[p] = "save_user"
    /\ \E same \in Sames : Tick(p, same)
    /\ IF ok
       THEN /\ sent
            /\ rpc' = [rpc EXCEPT ![p] = "save_count"]
            /\ UNCHANGED <<status, client, table, puts>>
       ELSE /\ Push(p, ErrorPush(p, "save_exc"), sent)
            /\ Return(p, 500)
            /\ UNCHANGED <<table, puts>>
    /\ UNCHANGED <<req, session_id, user_session, chat_messages, owner, mode, faults, clock, toolVars>>
    /\ UNCHANGED turnVars

\* Save user message.
SaveUser(p, ok, sent) ==
    /\ rpc[p] = "save_user"
    /\ \E same \in Sames : Tick(p, same)
    /\ IF ok
       THEN /\ sent
            /\ table' = PutItem(table, ChatItem(req[p].user_id, session_id[p], Stamp(p),
                                                "user", req[p].user_input))
            /\ puts' = [puts EXCEPT ![p] = Append(@, "user")]
            /\ rpc' = [rpc EXCEPT ![p] = "save_count"]
            /\ UNCHANGED <<status, client>>
       ELSE /\ Push(p, ErrorPush(p, "save_exc"), sent)
            /\ Return(p, 500)
            /\ UNCHANGED <<table, puts>>
    /\ UNCHANGED <<req, session_id, user_session, chat_messages, owner, mode, faults, clock, toolVars>>
    /\ UNCHANGED turnVars

\* Mutant of SaveCount: the count is raised in the store, from the value it
\* holds at the time of the write.
SaveCountAtomic(p, ok, sent) ==
    /\ rpc[p] = "save_count"
    /\ LET stored == Query(table, session_id[p], TRUE, 1)[1].message_count
           us == [user_session[p] EXCEPT !.message_count = stored + 1] IN
        /\ user_session' = [user_session EXCEPT ![p] = us]
        /\ IF ok
           THEN /\ sent
                /\ table' = PutItem(table, SessionItem(us))
                /\ puts' = [puts EXCEPT ![p] = Append(@, "session")]
                /\ rpc' = [rpc EXCEPT ![p] = "compile"]
                /\ UNCHANGED <<status, client>>
           ELSE /\ Push(p, ErrorPush(p, "save_exc"), sent)
                /\ Return(p, 500)
                /\ UNCHANGED <<table, puts>>
    /\ UNCHANGED <<req, session_id, chat_messages, now, stamped, owner, mode, faults, clock, toolVars>>
    /\ UNCHANGED turnVars

\* Mutant of SaveCount: the count is raised by 2.
SaveCountByTwo(p, ok, sent) ==
    /\ rpc[p] = "save_count"
    /\ LET us == [user_session[p] EXCEPT !.message_count = @ + 2] IN
        /\ user_session' = [user_session EXCEPT ![p] = us]
        /\ IF ok
           THEN /\ sent
                /\ table' = PutItem(table, SessionItem(us))
                /\ puts' = [puts EXCEPT ![p] = Append(@, "session")]
                /\ rpc' = [rpc EXCEPT ![p] = "compile"]
                /\ UNCHANGED <<status, client>>
           ELSE /\ Push(p, ErrorPush(p, "save_exc"), sent)
                /\ Return(p, 500)
                /\ UNCHANGED <<table, puts>>
    /\ UNCHANGED <<req, session_id, chat_messages, now, stamped, owner, mode, faults, clock, toolVars>>
    /\ UNCHANGED turnVars

\* user_session.message_count = (user_session.message_count or 0) + 1, and save.
SaveCount(p, ok, sent) ==
    /\ rpc[p] = "save_count"
    /\ LET us == [user_session[p] EXCEPT !.message_count = @ + 1] IN
        /\ user_session' = [user_session EXCEPT ![p] = us]
        /\ IF ok
           THEN /\ sent
                /\ table' = PutItem(table, SessionItem(us))
                /\ puts' = [puts EXCEPT ![p] = Append(@, "session")]
                /\ rpc' = [rpc EXCEPT ![p] = "compile"]
                /\ UNCHANGED <<status, client>>
           ELSE /\ Push(p, ErrorPush(p, "save_exc"), sent)
                /\ Return(p, 500)
                /\ UNCHANGED <<table, puts>>
    /\ UNCHANGED <<req, session_id, chat_messages, now, stamped, owner, mode, faults, clock, toolVars>>
    /\ UNCHANGED turnVars

\* ChatRepository.compile_chat_history: the newest context_window * 2 items of
\* the partition, oldest first, each as {role, content}.
compile_chat_history(sid, context_window) ==
    LET found == Query(table, sid, FALSE, context_window * 2)
        old == Reversed(found)
    IN  [i \in 1..Len(old) |-> [role |-> old[i].role, content |-> old[i].message]]

\* ChatRepository.format_session_summary
format_session_summary(current_summary) ==
    IF current_summary = "" THEN <<>>
    ELSE <<[role |-> "user",
            content |-> <<"Here is the current summary of the session: ", current_summary>>]>>

\* Compile chat history and send the chat context to the client.
Compile(p, ok, sent) ==
    /\ rpc[p] = "compile"
    /\ IF ok
       THEN LET recent == compile_chat_history(session_id[p], CONTEXT_WINDOW)
                msgs == IF ~Falsy(req[p].session_id)
                        THEN format_session_summary(user_session[p].session_summary)
                                \o recent
                        ELSE recent
            IN  /\ chat_messages' = [chat_messages EXCEPT ![p] = msgs]
                /\ Push(p, ContextPush(p, session_id[p], req[p].user_id, msgs), sent)
                /\ rpc' = [rpc EXCEPT ![p] = "agent"]
                /\ UNCHANGED status
       ELSE /\ Push(p, ErrorPush(p, "compile_exc"), sent)
            /\ Return(p, 500)
            /\ UNCHANGED chat_messages
    /\ UNCHANGED <<req, session_id, user_session, table, now, stamped, puts, owner, mode, faults, clock, toolVars>>
    /\ UNCHANGED turnVars

\* Mutant of agent_name: no default for a missing agent field.
agent_nameNoDefault(r) == r.agent

\* agent_name = body.get("agent", "general")
agent_name(r) == IF r.agent = NoField THEN "general" ELSE r.agent

\* get_agent, then the call of stream_to_client_and_persist.  The streams of
\* two invocations share nothing but the table, which each writes once at its
\* end, so they are taken one after the other.
CallAgent(p, sent) ==
    /\ rpc[p] = "agent"
    /\ IF agent_name(req[p]) \notin Agents
       THEN /\ Push(p, ErrorPush(p, "Unknown agent"), sent)
            /\ Return(p, 400)
            /\ UNCHANGED owner
            /\ UNCHANGED turnVars
       ELSE /\ sent
            /\ owner = 0
            /\ owner' = p
            /\ \E r \in RequestTexts : ResetTurn(agent_name(req[p]), r.text, r.cuts, "start")
            /\ rpc' = [rpc EXCEPT ![p] = "streaming"]
            /\ UNCHANGED <<status, client>>
    /\ UNCHANGED <<req, session_id, user_session, chat_messages, table, now, stamped, puts,
                   mode, faults, clock, toolVars>>

\* stream_to_client_and_persist has returned or raised.
FinishStream(p, sent) ==
    /\ rpc[p] = "streaming"
    /\ owner = p
    /\ hpc \in {"returned", "raised"}
    /\ IF hpc = "returned"
       THEN /\ sent
            /\ client' = [client EXCEPT ![p] = @ \o events]
            /\ Return(p, 200)
       ELSE /\ client' = [client EXCEPT ![p] =
                            @ \o events \o
                            (IF sent THEN <<ErrorPush(p, "stream_exc")>> ELSE <<>>)]
            /\ Return(p, 500)
    /\ owner' = 0
    /\ ResetTurn("general", <<>>, {}, "idle")
    /\ UNCHANGED <<req, session_id, user_session, chat_messages, table, now, stamped, puts,
                   mode, faults, clock, toolVars>>

InitRequest ==
    /\ mode = "sequential"
    /\ faults \in BOOLEAN
    /\ table \in {{}, S1Table}
    /\ now = 4
    /\ clock = "strict"
    /\ stamped = {}
    /\ InitTools
    /\ owner = 0
    /\ rpc = [p \in Procs |-> "idle"]
    /\ req = [p \in Procs |-> NoRequest]
    /\ session_id = [p \in Procs |-> ""]
    /\ user_session = [p \in Procs |-> NoSession]
    /\ chat_messages = [p \in Procs |-> <<>>]
    /\ status = [p \in Procs |-> 0]
    /\ client = [p \in Procs |-> <<>>]
    /\ puts = [p \in Procs |-> <<>>]
    /\ agent = "general"
    /\ text = <<>>
    /\ cuts = {}
    /\ hpc = "idle"
    /\ InitFilter

\* Two invocations at once, each with a turn on the existing session.
InitConcurrent(ck) ==
    /\ mode = "concurrent"
    /\ faults \in BOOLEAN
    /\ table = S1Table
    /\ now = 4
    /\ clock = ck
    /\ stamped = {}
    /\ InitTools
    /\ owner = 0
    /\ rpc = [p \in Procs |-> "idle"]
    /\ req = [p \in Procs |-> NoRequest]
    /\ session_id = [p \in Procs |-> ""]
    /\ user_session = [p \in Procs |-> NoSession]
    /\ chat_messages = [p \in Procs |-> <<>>]
    /\ status = [p \in Procs |-> 0]
    /\ client = [p \in Procs |-> <<>>]
    /\ puts = [p \in Procs |-> <<>>]
    /\ agent = "general"
    /\ text = <<>>
    /\ cuts = {}
    /\ hpc = "idle"
    /\ InitFilter

NextRequest ==
    \/ \E p \in Procs, sent \in Outcomes : Receive(p, sent)
    \/ \E p \in Procs, ok \in Outcomes, sent \in Outcomes : ResolveSession(p, ok, sent)
    \/ \E p \in Procs, ok \in Outcomes, sent \in Outcomes : SaveUser(p, ok, sent)
    \/ \E p \in Procs, ok \in Outcomes, sent \in Outcomes : SaveCount(p, ok, sent)
    \/ \E p \in Procs, ok \in Outcomes, sent \in Outcomes : Compile(p, ok, sent)
    \/ \E p \in Procs, sent \in Outcomes : CallAgent(p, sent)
    \/ \E ok \in Outcomes : PostStart(ok)
    \/ \E n \in 1..(Len(text) - pos) : NextChunk(n)
    \/ OpenFound
    \/ OpenNotFound
    \/ CloseFound
    \/ CloseNotFound
    \/ Flush
    \/ StreamRaises
    \/ \E ok \in Outcomes : LoopBody(ok)
    \/ \E ok \in Outcomes : PostEnd(ok)
    \/ \E ok \in Outcomes : Persist(ok)
    \/ \E ok \in Outcomes : Except(ok)
    \/ \E p \in Procs, sent \in Outcomes : FinishStream(p, sent)

SpecRequest == InitRequest /\ [][NextRequest]_vars

\* The two invocations read clocks that never agree.
InitRace == InitConcurrent("strict")

SpecRace == InitRace /\ [][NextRequest]_vars

\* The two invocations may read the same millisecond.
InitSameMs == InitConcurrent("coarse")

SpecSameMs == InitSameMs /\ [][NextRequest]_vars

-----------------------------------------------------------------------------
(* The tools of the quiz orchestrator *)

\* Everything the quiz tools leave alone but the clock and their own state.
chatVars == <<turnVars, table, stamped, puts, owner, mode, faults, clock, invocationVars>>

\* The orchestrator makes one tool call at a time unless the calls of
\* several invocations overlap (mode = "concurrent").
CanCall(c) == tpc[c] = "idle" /\ (mode = "sequential" => c = 1)

Returns(c, value) == result' = [result EXCEPT ![c] = value]
Calls(c, record) == call' = [call EXCEPT ![c] = record]

SeqsUpTo(S, n) == UNION {[1..k -> S] : k \in 0..n}

\* What the question-writing model may answer with: an item as asked for,
\* or an item that lacks a key.
ModelItems ==
    { [question |-> "Q", correct |-> <<"A">>],
      [question |-> NoField, correct |-> <<>>] }

\* The call of the model fails, its text is no JSON array, or it is an array
\* of items, as many as the model chose to write.
Responses ==
    {[kind |-> "raise"], [kind |-> "garbage"]} \cup
    {[kind |-> "items", items |-> q] : q \in SeqsUpTo(ModelItems, MaxQuestions)}

\* The store write of generate_quiz_questions that fails (0: none).
FailPoints(response) ==
    IF faults /\ response.kind = "items" THEN 0..(Len(response.items) + 1) ELSE {0}

\* The labels the orchestrator passes to evaluate_answer.
CorrectLabels == {<<"a", " ">>, <<"B">>}
UserLabels == {<<" ", "A">>, <<"b">>}

\* s.upper().strip()
Normalized(s) == Strip(Upper(s))

\* generate_quiz_questions: the model is called outside the try block; the
\* parsed items are saved one by one and the session is created last.
generate_quiz_questions(c, sid, num_questions, response, fail) ==
    /\ CanCall(c)
    /\ now <= MaxWrites
    /\ response.kind = "raise" => faults
    /\ Calls(c, [tool |-> "generate_quiz_questions", session_id |-> sid,
                 num_questions |-> num_questions])
    /\ IF response.kind = "raise"
       THEN /\ Returns(c, Raised)
            /\ UNCHANGED <<quiz_table, session_table, now>>
       ELSE IF response.kind = "garbage"
       THEN /\ Returns(c, [kind |-> "error", message |-> "Failed to generate quiz"])
            /\ UNCHANGED <<quiz_table, session_table, now>>
       ELSE LET quiz_items == response.items
                bad == {i \in 1..Len(quiz_items) : quiz_items[i].question = NoField}
                stops == {i - 1 : i \in bad} \cup (IF fail = 0 THEN {} ELSE {fail - 1})
                n == MinOf(stops \cup {Len(quiz_items)})
                created == bad = {} /\ fail = 0
            IN  /\ quiz_table' = db_save_quiz(quiz_table, sid, quiz_items, n)
                /\ session_table' =
                       IF created
                       THEN db_create_session(session_table, sid, Len(quiz_items), now)
                       ELSE session_table
                /\ Returns(c, IF created THEN [kind |-> "ok", items |-> quiz_items]
                              ELSE [kind |-> "error", message |-> "Failed to generate quiz"])
                /\ now' = now + 1
    /\ UNCHANGED <<tpc, session_data, final_response>>
    /\ UNCHANGED chatVars

\* Mutant of new_score: every answer scores.
new_scoreAlways(sd, is_correct) == sd.score + 1

new_score(sd, is_correct) == sd.score + (IF is_correct THEN 1 ELSE 0)
new_question(sd) == sd.current_question + 1
new_state(sd) ==
    IF new_question(sd) >= sd.total_questions THEN "completed" ELSE "in_progress"

\* evaluate_answer up to db_update_question_answer.
evaluate_answer(c, sid, q_index, correct_answer, user_answer, ok) ==
    /\ CanCall(c)
    /\ now <= MaxWrites
    /\ Calls(c, [tool |-> "evaluate_answer", session_id |-> sid, q_index |-> q_index,
                 correct_answer |-> correct_answer, user_answer |-> user_answer])
    /\ now' = now + 1
    /\ IF ok
       THEN /\ quiz_table' = db_update_question_answer(quiz_table, sid, q_index, user_answer,
                                 Normalized(user_answer) = Normalized(correct_answer), now)
            /\ tpc' = [tpc EXCEPT ![c] = "get_session"]
            /\ Returns(c, NoResult)
       ELSE /\ Returns(c, Raised)
            /\ UNCHANGED <<quiz_table, tpc>>
    /\ UNCHANGED <<session_table, session_data, final_response>>
    /\ UNCHANGED chatVars

\* session_data = db_get_session(session_id); session_data["score"] is a
\* KeyError when the session was not found.
EvalGetSession(c, ok) ==
    /\ tpc[c] = "get_session"
    /\ LET found == db_get_session(session_table, call[c].session_id) IN
       IF ok /\ found.kind = "ok"
       THEN /\ session_data' = [session_data EXCEPT ![c] = found]
            /\ tpc' = [tpc EXCEPT ![c] = "update_progress"]
            /\ UNCHANGED result
       ELSE /\ session_data' = [session_data EXCEPT ![c] = NoResult]
            /\ tpc' = [tpc EXCEPT ![c] = "idle"]
            /\ Returns(c, Raised)
    /\ UNCHANGED <<quiz_table, session_table, call, final_response, now>>
    /\ UNCHANGED chatVars

\* db_update_session_progress(...) and the return of evaluate_answer (the
\* texts of the two choices are left out).
EvalUpdateProgress(c, ok) ==
    /\ tpc[c] = "update_progress"
    /\ LET is_correct == Normalized(call[c].user_answer) = Normalized(call[c].correct_answer)
           sd == session_data[c]
       IN  IF ok
           THEN /\ session_table' =
                       db_update_session_progress(session_table, call[c].session_id,
                           new_score(sd, is_correct), new_question(sd), new_state(sd), now)
                /\ Returns(c, [kind |-> "ok", is_correct |-> is_correct,
                               user_answer |-> Normalized(call[c].user_answer),
                               correct_answer |-> Normalized(call[c].correct_answer)])
           ELSE /\ session_table' = session_table
                /\ Returns(c, Raised)
    /\ tpc' = [tpc EXCEPT ![c] = "idle"]
    /\ session_data' = [session_data EXCEPT ![c] = NoResult]
    /\ UNCHANGED <<quiz_table, call, final_response, now>>
    /\ UNCHANGED chatVars

\* The tool db_get_session: get_item may fail, and nothing catches it.
GetSession(c, sid, ok) ==
    /\ CanCall(c)
    /\ Calls(c, [tool |-> "db_get_session", session_id |-> sid])
    /\ Returns(c, IF ok THEN db_get_session(session_table, sid) ELSE Raised)
    /\ UNCHANGED <<quiz_table, session_table, tpc, session_data, final_response, now>>
    /\ UNCHANGED chatVars

\* The tool db_get_question.
GetQuestion(c, sid, q_index, ok) ==
    /\ CanCall(c)
    /\ Calls(c, [tool |-> "db_get_question", session_id |-> sid, q_index |-> q_index])
    /\ Returns(c, IF ok THEN db_get_question(quiz_table, sid, q_index) ELSE Raised)
    /\ UNCHANGED <<quiz_table, session_table, tpc, session_data, final_response, now>>
    /\ UNCHANGED chatVars

\* generate_feedback and generate_explanation: one call of the model, whose
\* text is returned.
ContentTools == {"generate_feedback", "generate_explanation"}
GenerateContent(c, tool, ok) ==
    /\ CanCall(c)
    /\ Calls(c, [tool |-> tool])
    /\ Returns(c, IF ok THEN [kind |-> "ok", text |-> "T"] ELSE Raised)
    /\ UNCHANGED <<quiz_table, session_table, tpc, session_data, final_response, now>>
    /\ UNCHANGED chatVars

\* The call of generate_chat_response that fails: 0 none, 1 the model,
\* 2 get_item, 3 update_item.
ChatFailPoints == IF faults THEN 0..3 ELSE {0}

\* generate_chat_response: one call of the model, then db_add_to_chat_history,
\* which rewrites history and updated_at of a session that exists (the
\* history list itself is left out).
generate_chat_response(c, sid, fail) ==
    /\ CanCall(c)
    /\ now <= MaxWrites
    /\ Calls(c, [tool |-> "generate_chat_response", session_id |-> sid])
    /\ LET exists == sid \in DOMAIN session_table
           written == fail = 0 /\ exists
       IN  /\ session_table' =
                  IF written
                  THEN [session_table EXCEPT ![sid].updated_at = now]
                  ELSE session_table
           /\ now' = IF written THEN now + 1 ELSE now
           /\ Returns(c, IF fail \in {1, 2} \/ (fail = 3 /\ exists) THEN Raised
                         ELSE [kind |-> "ok", text |-> "T"])
    /\ UNCHANGED <<quiz_table, tpc, session_data, final_response>>
    /\ UNCHANGED chatVars

\* No request is being handled; the quiz tables are empty.
InitQuiz ==
    /\ mode = "sequential"
    /\ faults \in BOOLEAN
    /\ table = {}
    /\ now = 1
    /\ clock = "strict"
    /\ stamped = {}
    /\ InitTools
    /\ owner = 0
    /\ rpc = [p \in Procs |-> "idle"]
    /\ req = [p \in Procs |-> NoRequest]
    /\ session_id = [p \in Procs |-> ""]
    /\ user_session = [p \in Procs |-> NoSession]
    /\ chat_messages = [p \in Procs |-> <<>>]
    /\ status = [p \in Procs |-> 0]
    /\ client = [p \in Procs |-> <<>>]
    /\ puts = [p \in Procs |-> <<>>]
    /\ agent = "quizzer"
    /\ text = <<>>
    /\ cuts = {}
    /\ hpc = "idle"
    /\ InitFilter

NextQuiz ==
    \/ \E c \in Callers, sid \in QuizIds, n \in 1..MaxQuestions, response \in Responses :
           \E fail \in FailPoints(response) :
               generate_quiz_questions(c, sid, n, response, fail)
    \/ \E c \in Callers, sid \in QuizIds, q_index \in 0..MaxQuestions,
          correct_answer \in CorrectLabels, user_answer \in UserLabels, ok \in Outcomes :
           evaluate_answer(c, sid, q_index, correct_answer, user_answer, ok)
    \/ \E c \in Callers, ok \in Outcomes : EvalGetSession(c, ok)
    \/ \E c \in Callers, ok \in Outcomes : EvalUpdateProgress(c, ok)
    \/ \E c \in Callers, sid \in QuizIds, ok \in Outcomes : GetSession(c, sid, ok)
    \/ \E c \in Callers, sid \in QuizIds, q_index \in 0..MaxQuestions, ok \in Outcomes :
           GetQuestion(c, sid, q_index, ok)
    \/ \E c \in Callers, tool \in ContentTools, ok \in Outcomes : GenerateContent(c, tool, ok)
    \/ \E c \in Callers, sid \in QuizIds, fail \in ChatFailPoints :
           generate_chat_response(c, sid, fail)

SpecQuiz == InitQuiz /\ [][NextQuiz]_vars

\* Two invocations answer questions of the same quiz: generate_quiz_questions
\* has stored MaxQuestions questions and the session record at time 1, and each
\* invocation runs evaluate_answer on its own; their store calls interleave.
InitQuizRace ==
    /\ mode = "concurrent"
    /\ faults = FALSE
    /\ table = {}
    /\ now = 2
    /\ clock = "strict"
    /\ stamped = {}
    /\ quiz_table =
           db_save_quiz(NoItems, "z1",
                        [i \in 1..MaxQuestions |-> [question |-> "Q", correct |-> <<"A">>]],
                        MaxQuestions)
    /\ session_table = db_create_session(NoItems, "z1", MaxQuestions, 1)
    /\ tpc = [c \in Callers |-> "idle"]
    /\ call = [c \in Callers |-> NoCall]
    /\ result = [c \in Callers |-> NoResult]
    /\ session_data = [c \in Callers |-> NoResult]
    /\ final_response = <<>>
    /\ owner = 0
    /\ rpc = [p \in Procs |-> "idle"]
    /\ req = [p \in Procs |-> NoRequest]
    /\ session_id = [p \in Procs |-> ""]
    /\ user_session = [p \in Procs |-> NoSession]
    /\ chat_messages = [p \in Procs |-> <<>>]
    /\ status = [p \in Procs |-> 0]
    /\ client = [p \in Procs |-> <<>>]
    /\ puts = [p \in Procs |-> <<>>]
    /\ agent = "quizzer"
    /\ text = <<>>
    /\ cuts = {}
    /\ hpc = "idle"
    /\ InitFilter

NextQuizRace ==
    \/ \E c \in Callers, sid \in QuizIds, q_index \in 0..MaxQuestions,
          correct_answer \in CorrectLabels, user_answer \in UserLabels, ok \in Outcomes :
           evaluate_answer(c, sid, q_index, correct_answer, user_answer, ok)
    \/ \E c \in Callers, ok \in Outcomes : EvalGetSession(c, ok)
    \/ \E c \in Callers, ok \in Outcomes : EvalUpdateProgress(c, ok)
    \/ \E c \in Callers, sid \in QuizIds, ok \in Outcomes : GetSession(c, sid, ok)

SpecQuizRace == InitQuizRace /\ [][NextQuizRace]_vars

-----------------------------------------------------------------------------
(* The tools of the curriculum agent *)

\* Everything get_curriculum_context and retrieve_from_kb leave alone but
\* the stream they read and their own state.
contextFrame ==
    <<agent, cuts, pc, resume, chunk, chunkSrc, out, outIdx, yielded, hpc, events,
      assistant_chunks, agent_response, saved,
      table, now, stamped, puts, owner, mode, faults, clock, invocationVars>>

\* json.dumps({"status": "error", ...})
ErrorPayload == [kind |-> "payload", status |-> "error"]

\* Mutant of CtxFails: the exception leaves the tool.
CtxFailsUncaught(c) ==
    /\ tpc' = [tpc EXCEPT ![c] = "idle"]
    /\ Returns(c, Raised)

\* except Exception as e: return json.dumps({"status": "error", ...})
CtxFails(c) ==
    /\ tpc' = [tpc EXCEPT ![c] = "idle"]
    /\ Returns(c, ErrorPayload)

\* get_curriculum_context up to the loop over the inner stream; create_agent
\* may fail.
get_curriculum_context(c, ok) ==
    /\ CanCall(c)
    /\ Calls(c, [tool |-> "get_curriculum_context"])
    /\ pos' = 0
    /\ buffer' = <<>>
    /\ inside_thinking' = FALSE
    /\ final_response' = <<>>
    /\ IF ok
       THEN /\ tpc' = [tpc EXCEPT ![c] = "ctx_next"]
            /\ Returns(c, NoResult)
       ELSE CtxFails(c)
    /\ UNCHANGED <<text, quiz_table, session_table, session_data>>
    /\ UNCHANGED contextFrame

\* async for chunk in agent.stream_async(query): buffer += data, or the
\* inner stream raises.
CtxNextChunk(c, n, ok) ==
    /\ tpc[c] = "ctx_next"
    /\ pos < Len(text)
    /\ pos + n \in cuts
    /\ IF ok
       THEN /\ buffer' = buffer \o SubSeq(text, pos + 1, pos + n)
            /\ pos' = pos + n
            /\ tpc' = [tpc EXCEPT ![c] = "ctx_scan"]
            /\ UNCHANGED result
       ELSE /\ CtxFails(c)
            /\ UNCHANGED <<buffer, pos>>
    /\ UNCHANGED <<text, inside_thinking, final_response, call,
                   quiz_table, session_table, session_data>>
    /\ UNCHANGED contextFrame

\* Mutant of CtxKeep: nothing is held back.
CtxKeepNone(inside) == 0

\* The number of characters held back at the end of the buffer: 10 while
\* outside a span, 11 inside.
CtxKeep(inside) == IF inside THEN CloseLen ELSE OpenLen

\* One iteration of the while-loop of get_curriculum_context.
CtxScan(c) ==
    /\ tpc[c] = "ctx_scan"
    /\ IF ~inside_thinking
       THEN LET start == Find(Lower(buffer), OpenTag) IN
            IF start # -1
            THEN /\ final_response' = final_response \o Upto(buffer, start)
                 /\ buffer' = From(buffer, start + OpenLen)
                 /\ inside_thinking' = TRUE
                 /\ UNCHANGED tpc
            ELSE /\ IF Len(buffer) > OpenLen
                    THEN /\ final_response' =
                                final_response \o Upto(buffer, Len(buffer) - CtxKeep(FALSE))
                         /\ buffer' = Last(buffer, CtxKeep(FALSE))
                    ELSE UNCHANGED <<final_response, buffer>>
                 /\ tpc' = [tpc EXCEPT ![c] = "ctx_next"]
                 /\ UNCHANGED inside_thinking
       ELSE LET end == Find(Lower(buffer), CloseTag) IN
            IF end # -1
            THEN /\ buffer' = From(buffer, end + CloseLen)
                 /\ inside_thinking' = FALSE
                 /\ UNCHANGED <<final_response, tpc>>
            ELSE /\ IF Len(buffer) > CloseLen
                    THEN buffer' = Last(buffer, CtxKeep(TRUE))
                    ELSE UNCHANGED buffer
                 /\ tpc' = [tpc EXCEPT ![c] = "ctx_next"]
                 /\ UNCHANGED <<final_response, inside_thinking>>
    /\ UNCHANGED <<text, pos, call, result, quiz_table, session_table, session_data>>
    /\ UNCHANGED contextFrame

\* The inner stream has ended: flush the buffer and return the payload.
CtxReturn(c) ==
    /\ tpc[c] = "ctx_next"
    /\ pos = Len(text)
    /\ final_response' =
           IF buffer # <<>> /\ ~inside_thinking THEN final_response \o buffer
           ELSE final_response
    /\ Returns(c, [kind |-> "payload", status |-> "success",
                   curriculum_response |-> final_response'])
    /\ tpc' = [tpc EXCEPT ![c] = "idle"]
    /\ UNCHANGED <<text, pos, buffer, inside_thinking, call,
                   quiz_table, session_table, session_data>>
    /\ UNCHANGED contextFrame

\* round(score, 3), scores counted in ten-thousandths.
Round3(score) == ((score + 5) \div 10) * 10

\* What client.retrieve may answer with: it fails, or it returns up to
\* MaxResults results: one with a text and a score, one with neither (text ''
\* and score 0 are the defaults), one without the 'content' key.
KbItems ==
    { [content |-> "k", score |-> 8123],
      [content |-> "", score |-> 0],
      [content |-> NoField, score |-> 4567] }
KbResults == SeqsUpTo(KbItems, MaxResults)
KbResponses ==
    {[kind |-> "raise"]} \cup {[kind |-> "results", retrievalResults |-> r] : r \in KbResults}

\* Mutant of retrieve_from_kb: no try block.
retrieve_from_kbNoTry(c, query, response) ==
    /\ CanCall(c)
    /\ response.kind = "raise" => faults
    /\ Calls(c, [tool |-> "retrieve_from_kb", query |-> query, response |-> response])
    /\ Returns(c,
           IF response.kind = "raise"
              \/ \E i \in 1..Len(response.retrievalResults) :
                     response.retrievalResults[i].content = NoField
           THEN Raised
           ELSE [kind |-> "payload", status |-> "success",
                 results |-> [i \in 1..Len(response.retrievalResults) |->
                                 [score |-> Round3(response.retrievalResults[i].score),
                                  content |-> response.retrievalResults[i].content]]])
    /\ UNCHANGED <<text, pos, buffer, inside_thinking, final_response, tpc,
                   quiz_table, session_table, session_data>>
    /\ UNCHANGED contextFrame

\* retrieve_from_kb: a failure of the service, or a result without the
\* 'content' key, ends in the except branch.
retrieve_from_kb(c, query, response) ==
    /\ CanCall(c)
    /\ response.kind = "raise" => faults
    /\ Calls(c, [tool |-> "retrieve_from_kb", query |-> query, response |-> response])
    /\ Returns(c,
           IF response.kind = "raise"
              \/ \E i \in 1..Len(response.retrievalResults) :
                     response.retrievalResults[i].content = NoField
           THEN ErrorPayload
           ELSE [kind |-> "payload", status |-> "success",
                 results |-> [i \in 1..Len(response.retrievalResults) |->
                                 [score |-> Round3(response.retrievalResults[i].score),
                                  content |-> response.retrievalResults[i].content]]])
    /\ UNCHANGED <<text, pos, buffer, inside_thinking, final_response, tpc,
                   quiz_table, session_table, session_data>>
    /\ UNCHANGED contextFrame

\* The curriculum agent's reply to the query is any of the responses, cut
\* into fragments anywhere.
InitContext ==
    /\ mode = "sequential"
    /\ faults \in BOOLEAN
    /\ table = {}
    /\ now = 1
    /\ clock = "strict"
    /\ stamped = {}
    /\ InitTools
    /\ owner = 0
    /\ rpc = [p \in Procs |-> "idle"]
    /\ req = [p \in Procs |-> NoRequest]
    /\ session_id = [p \in Procs |-> ""]
    /\ user_session = [p \in Procs |-> NoSession]
    /\ chat_messages = [p \in Procs |-> <<>>]
    /\ status = [p \in Procs |-> 0]
    /\ client = [p \in Procs |-> <<>>]
    /\ puts = [p \in Procs |-> <<>>]
    /\ agent = "curriculum"
    /\ text \in Texts
    /\ cuts = 1..Len(text)
    /\ hpc = "idle"
    /\ InitFilter

NextContext ==
    \/ \E c \in Callers, ok \in Outcomes : get_curriculum_context(c, ok)
    \/ \E c \in Callers, n \in 1..(Len(text) - pos), ok \in Outcomes : CtxNextChunk(c, n, ok)
    \/ \E c \in Callers : CtxScan(c)
    \/ \E c \in Callers : CtxReturn(c)
    \/ \E c \in Callers, response \in KbResponses : retrieve_from_kb(c, "q", response)

SpecContext == InitContext /\ [][NextContext]_vars

\* The same reply is first filtered by stream_async, then read again by
\* get_curriculum_context; each reads it cut into fragments anywhere, so every
\* pair of fragmentations occurs, the pairs of equal ones included.
InitBoth ==
    /\ mode = "sequential"
    /\ faults = FALSE
    /\ table = {}
    /\ now = 1
    /\ clock = "strict"
    /\ stamped = {}
    /\ InitTools
    /\ owner = 0
    /\ rpc = [p \in Procs |-> "idle"]
    /\ req = [p \in Procs |-> NoRequest]
    /\ session_id = [p \in Procs |-> ""]
    /\ user_session = [p \in Procs |-> NoSession]
    /\ chat_messages = [p \in Procs |-> <<>>]
    /\ status = [p \in Procs |-> 0]
    /\ client = [p \in Procs |-> <<>>]
    /\ puts = [p \in Procs |-> <<>>]
    /\ agent = "curriculum"
    /\ text \in Texts
    /\ cuts = 1..Len(text)
    /\ hpc = "drain"
    /\ InitFilter

NextBoth ==
    \/ \E n \in 1..(Len(text) - pos) : NextChunk(n)
    \/ OpenFound
    \/ OpenNotFound
    \/ CloseFound
    \/ CloseNotFound
    \/ Flush
    \/ Drain
    \/ \E c \in Callers, ok \in Outcomes : pc = "ended" /\ get_curriculum_context(c, ok)
    \/ \E c \in Callers, n \in 1..(Len(text) - pos), ok \in Outcomes : CtxNextChunk(c, n, ok)
    \/ \E c \in Callers : CtxScan(c)
    \/ \E c \in Callers : CtxReturn(c)

SpecBoth == InitBoth /\ [][NextBoth]_vars

-----------------------------------------------------------------------------
(* Reference notions the properties are stated with *)

\* Tag t occurs in s at 0-based offset k, letters compared without case.
Occurs(t, s, k) ==
    /\ k >= 0
    /\ k + Len(t) <= Len(s)
    /\ \A i \in 1..Len(t) : LowerChar(s[k + i]) = t[i]

Occs(t, s) == {k \in 0..(Len(s) - Len(t)) : Occurs(t, s, k)}

\* The first occurrence of t in s at or after offset k, or -1.
NextOcc(t, s, k) ==
    LET later == {j \in Occs(t, s) : j >= k}
    IN  IF later = {} THEN -1 ELSE MinOf(later)

\* The thinking spans of s read left to right from offset k: each runs from an
\* open tag through the next close tag, or to the end of s when none follows.
RECURSIVE RefSpans(_, _)
RefSpans(s, k) ==
    LET o == NextOcc(OpenTag, s, k) IN
    IF o = -1 THEN <<>>
    ELSE LET c == NextOcc(CloseTag, s, o + Len(OpenTag)) IN
         IF c = -1
         THEN <<[from |-> o, to |-> Len(s), closed |-> FALSE]>>
         ELSE <<[from |-> o, to |-> c + Len(CloseTag), closed |-> TRUE]>>
                 \o RefSpans(s, c + Len(CloseTag))

Spans == RefSpans(text, 0)

\* The 1-based positions of text that lie in a thinking span, tags included.
SpanPositions ==
    LET sp == Spans
    IN  {p \in 1..Len(text) : \E i \in 1..Len(sp) : sp[i].from < p /\ p <= sp[i].to}

\* What the model stream has delivered so far.
Delivered == SubSeq(text, 1, pos)

\* The characters of text at the positions idx.
TextAt(idx) == [i \in 1..Len(idx) |-> text[idx[i]]]

\* The positions already handed to the consumer or being handed over right now.
EmittedPositions ==
    {outIdx[i] : i \in 1..Len(outIdx)} \cup
    (IF pc = "yield" THEN chunkSrc[1]..chunkSrc[2] ELSE {})

\* The agents whose stream_async yields the slices of the buffer as they are.
PlainAgents == {"general", "curriculum", "reviewer"}

IsOpenPrefix(s) == Len(s) < Len(OpenTag) /\ Lower(s) = SubSeq(OpenTag, 1, Len(s))

-----------------------------------------------------------------------------
(* C1: a response without any open tag passes the filter unchanged: when the
   stream has ended, the concatenated output equals the whole input, however
   it was split into fragments. *)
ThmC1_NoTagIdentity ==
    (pc = "ended" /\ agent \in PlainAgents /\ Occs(OpenTag, text) = {})
        => out = text

WitC1_NoTagIdentity ==
    /\ pc = "ended"
    /\ agent = "curriculum"
    /\ Occs(OpenTag, text) = {}
    /\ Occs(CloseTag, text) # {}
    /\ Len(text) > Len(OpenTag)
    /\ out = text

-----------------------------------------------------------------------------
(* C2: a response with exactly one well-formed span comes out with the span
   and both tags removed, for every split; "<thi" followed by
   "nking>hidden</thinking>visible" gives exactly "visible", the "<thi" being
   held back until the rest arrives. *)
OneSpan ==
    /\ Cardinality(Occs(OpenTag, text)) = 1
    /\ Cardinality(Occs(CloseTag, text)) = 1
    /\ MinOf(Occs(OpenTag, text)) < MinOf(Occs(CloseTag, text))

SpanRemoved ==
    LET o == MinOf(Occs(OpenTag, text))
        c == MinOf(Occs(CloseTag, text))
    IN  SubSeq(text, 1, o) \o SubSeq(text, c + Len(CloseTag) + 1, Len(text))

ThmC2_OneSpanRemoved ==
    /\ (pc = "ended" /\ agent \in PlainAgents /\ OneSpan) => out = SpanRemoved
    /\ (text = HiddenVisible /\ agent \in PlainAgents /\ pos = 4 /\ pc = "next")
            => (out = <<>> /\ buffer = <<"<", "t", "h", "i">>)
    /\ (text = HiddenVisible /\ agent \in PlainAgents /\ pc = "ended")
            => out = <<"v", "i", "s", "i", "b", "l", "e">>

WitC2_OneSpanRemoved ==
    /\ pc = "ended"
    /\ agent = "reviewer"
    /\ text = HiddenVisible
    /\ out = <<"v", "i", "s", "i", "b", "l", "e">>

WitC2_MixedCase ==
    /\ pc = "ended"
    /\ agent = "curriculum"
    /\ text = MixedCase
    /\ out = <<"a", " ", " ", "c">>

-----------------------------------------------------------------------------
(* C3: when the last open tag of a response is never closed, nothing that
   comes after it is emitted, neither while streaming nor at the final flush,
   and the stream ends inside the thinking block; "<thinking>oops" yields the
   empty string. *)
ThmC3_UnterminatedNeverLeaks ==
    LET sp == Spans
        n == Len(sp)
    IN  /\ (n > 0 /\ ~sp[n].closed) =>
                /\ \A p \in EmittedPositions : p <= sp[n].from
                /\ pc = "ended" => inside_thinking
        /\ (text = Oops /\ pc = "ended") => out = <<>>

WitC3_UnterminatedNeverLeaks ==
    LET sp == Spans
        n == Len(sp)
    IN  /\ pc = "ended"
        /\ inside_thinking
        /\ n > 0
        /\ ~sp[n].closed
        /\ sp[n].from > 0
        /\ Len(text) >= sp[n].from + 2 * Len(OpenTag)
        /\ Len(out) > 0

-----------------------------------------------------------------------------
(* C4: a proper prefix of the open tag that is never completed is not lost:
   while no open tag has been delivered, output plus withheld buffer is exactly
   what was delivered, the withheld part is a proper prefix of the tag (it can
   still become one), and at the end of the stream the output is the whole
   input. *)
ThmC4_PartialPrefixNotLost ==
    (agent \in PlainAgents /\ Occs(OpenTag, Delivered) = {}) =>
        /\ pc = "next" => (out \o buffer = Delivered /\ IsOpenPrefix(buffer))
        /\ pc = "ended" => out = text

\* "<think" occurs in the response and no complete open tag does.
WitC4_PartialPrefixNotLost ==
    /\ pc = "ended"
    /\ agent = "general"
    /\ Occs(SubSeq(OpenTag, 1, 6), text) # {}
    /\ Occs(OpenTag, text) = {}
    /\ out = text

-----------------------------------------------------------------------------
(* C5: no character of an open tag that starts a thinking span is ever
   emitted, however the tag is split: between fragments, while outside, the
   withheld buffer is a (case-insensitive) proper prefix of the open tag. *)
ThmC5_OpenTagNeverEmitted ==
    LET sp == Spans
        em == EmittedPositions
    IN  /\ \A i \in 1..Len(sp) : \A p \in em :
                ~(sp[i].from < p /\ p <= sp[i].from + Len(OpenTag))
        /\ (pc = "next" /\ ~inside_thinking) => IsOpenPrefix(buffer)

\* The first characters of a span's open tag are being withheld.
WitC5_OpenTagNeverEmitted ==
    /\ pc = "next"
    /\ ~inside_thinking
    /\ Len(buffer) > 1
    /\ Len(out) > 0
    /\ LET sp == Spans IN \E i \in 1..Len(sp) : sp[i].from = pos - Len(buffer)

-----------------------------------------------------------------------------
(* C6 as stated: between fragments the buffer holds at most 9 characters
   outside and at most 10 inside a thinking block. *)
CexC6_BufferBound ==
    pc \in {"next", "ended"} =>
        Len(buffer) <= (IF inside_thinking THEN CloseLen - 1 ELSE OpenLen - 1)

(* C6 as amended: between fragments the buffer holds at most 9 characters
   outside and at most 11 = len(close_tag) inside a thinking block. *)
ThmC6_BufferBound ==
    pc \in {"next", "ended"} =>
        Len(buffer) <= (IF inside_thinking THEN CloseLen ELSE OpenLen - 1)

WitC6_BufferBound ==
    /\ pc = "next"
    /\ inside_thinking
    /\ Len(buffer) = CloseLen
    /\ pos > Len(OpenTag) + CloseLen

-----------------------------------------------------------------------------
(* C7 as stated: for all four agents the output is a subsequence of the model
   text: the emitted characters are input characters in input order, unaltered. *)
Increasing(idx) == \A i \in 1..(Len(idx) - 1) : idx[i] < idx[i + 1]

CexC7_Subsequence ==
    /\ Increasing(outIdx)
    /\ out = TextAt(outIdx)

(* C7 as amended: the emitted positions are in input order and only positions
   of thinking spans are left out; general, curriculum and reviewer emit the
   characters at these positions unaltered, quizzer emits them with every
   newline replaced by "<br>". *)
ThmC7_Subsequence ==
    /\ Increasing(outIdx)
    /\ out = (IF agent = "quizzer" THEN ReplaceNl(TextAt(outIdx)) ELSE TextAt(outIdx))
    /\ pc = "ended" =>
            (1..Len(text)) \ {outIdx[i] : i \in 1..Len(outIdx)} \subseteq SpanPositions

WitC7_Subsequence ==
    /\ pc = "ended"
    /\ agent = "quizzer"
    /\ \E i \in 1..Len(outIdx) : text[outIdx[i]] = "\n"
    /\ SpanPositions # {}
    /\ out # TextAt(outIdx)

-----------------------------------------------------------------------------
(* C8: the filter always finishes: every iteration of the scanning loop either
   leaves the loop or removes a whole tag from the buffer, every step of the
   generator brings the stream closer to its end (a non-negative measure that
   strictly decreases), and the stream ends only when the whole input has been
   read, in state OUTSIDE or INSIDE. *)
PcRank ==
    CASE pc = "ended" -> 0
      [] pc = "next" -> 2
      [] pc = "scan" -> 4
      [] pc = "yield" /\ resume = "ended" -> 1
      [] pc = "yield" /\ resume = "next" -> 3
      [] pc = "yield" /\ resume = "scan" -> 5

Measure == 4 * (Len(text) - pos) + Len(buffer) + PcRank

\* A step is possible in every state but the final one.
NeverStuck == pc = "ended" \/ ENABLED Next

ThmC8_FilterTerminates ==
    /\ [][pc = "scan" =>
            \/ pc' = "next"
            \/ pc' = "yield" /\ resume' = "next"
            \/ Len(buffer') + Len(OpenTag) <= Len(buffer)]_vars
    /\ [][Measure' < Measure /\ Measure' >= 0]_vars
    /\ [](pc \in {"next", "scan", "yield", "ended"})
    /\ [](pc = "ended" => inside_thinking \in BOOLEAN /\ pos = Len(text))

\* A response with a repeated open tag has been filtered to its end.
WitC8_FilterTerminates ==
    /\ pc = "ended"
    /\ Cardinality(Occs(OpenTag, text)) >= 2
    /\ Occs(CloseTag, text) # {}

-----------------------------------------------------------------------------
(* C9: within one turn the delivery events are strictly ordered: a
   start_of_message comes first and only once, the in_progress events carry
   the deliverable fragments in the order the agent stream yielded them,
   nothing but an error frame follows end_of_message, and a turn that gets as
   far as persisting has delivered exactly one start, every increment and
   exactly one end. *)
IsDelivery(e) == e.type # "error"

IsIncrement(e) == e.type = "in_progress"

\* The fragments carried by the in_progress events, in delivery order.
Increments ==
    LET inc == SelectSeq(events, IsIncrement)
    IN  [i \in 1..Len(inc) |-> inc[i].agent_response]

ThmC9_EventsOrdered ==
    LET d == SelectSeq(events, IsDelivery)
        n == Len(d)
        inc == Increments
        due == SelectSeq(yielded, Deliverable)
    IN  /\ n > 0 => d[1] = StartOfMessage
        /\ \A i \in 2..n : d[i].type \in {"in_progress", "end_of_message"}
        /\ \A i \in 1..n : d[i].type = "end_of_message" => i = n
        /\ \A i \in 1..Len(events) : events[i].type = "error" => i = Len(events)
        /\ Len(inc) <= Len(due)
        /\ inc = SubSeq(due, 1, Len(inc))
        /\ hpc \in {"persist", "returned"} =>
                /\ n = Len(due) + 2
                /\ d[n] = EndOfMessage
                /\ inc = due

\* A completed turn that delivered two different increments.
WitC9_EventsOrdered ==
    /\ hpc = "returned"
    /\ Len(events) >= 4
    /\ events[1].type = "start_of_message"
    /\ events[2].type = "in_progress"
    /\ events[3].type = "in_progress"
    /\ events[2].agent_response # events[3].agent_response
    /\ events[Len(events)].type = "end_of_message"

-----------------------------------------------------------------------------
(* C10 as stated: a turn that returns has delivered one in_progress event for
   every non-empty fragment the agent stream yielded, has appended each of them
   to the accumulator, and has persisted and returned the concatenation of all
   the fragments yielded. *)
NonEmpty(chunk_text) == chunk_text # <<>>

CexC10_AllFragmentsPersisted ==
    hpc = "returned" =>
        /\ Increments = SelectSeq(yielded, NonEmpty)
        /\ assistant_chunks = SelectSeq(yielded, NonEmpty)
        /\ agent_response = Join(yielded)
        /\ saved = <<Join(yielded)>>

-----------------------------------------------------------------------------
(* Notions the request properties are stated with *)

\* The persisted turns of a session.
Turns(sid) == {i \in Partition(table, sid) : i.role \in {"user", "assistant"}}

UserTurns(sid) == {i \in Partition(table, sid) : i.role = "user"}

AssistantTurns(sid) == {i \in Partition(table, sid) : i.role = "assistant"}

\* The session records of a session.
SessionRecords(sid) == {i \in Partition(table, sid) : i.title # NoTitle}

\* How often k occurs in the sequence s.
CountOf(s, k) == Cardinality({i \in 1..Len(s) : s[i] = k})

\* Everything the connection of invocation p has received so far.
Received(p) == client[p] \o (IF owner = p THEN events ELSE <<>>)

HasType(f, t) == "type" \in DOMAIN f /\ f.type = t

HasError(f) == "error" \in DOMAIN f

-----------------------------------------------------------------------------
(* C11: a request without session_id whose stream completes successfully has
   written the session record, the user turn, the session record again and the
   assistant turn, in this order; its session then holds exactly one session
   record, one user turn and one assistant turn, 2 turns in all; and in every
   execution an invocation saves the assistant turn at most once. *)
ThmC11_OneRoundTrip ==
    \A p \in Procs :
        /\ CountOf(puts[p], "assistant") <= 1
        /\ (status[p] = 200 /\ Falsy(req[p].session_id)) =>
                /\ puts[p] = <<"session", "user", "session", "assistant">>
                /\ Cardinality(SessionRecords(session_id[p])) = 1
                /\ Cardinality(UserTurns(session_id[p])) = 1
                /\ Cardinality(AssistantTurns(session_id[p])) = 1
                /\ Cardinality(Turns(session_id[p])) = 2
                /\ Cardinality(Partition(table, session_id[p])) = 3

\* The second request of a run opened a session of its own and completed.
WitC11_OneRoundTrip ==
    /\ status[2] = 200
    /\ Falsy(req[2].session_id)
    /\ session_id[2] = NewId(2)
    /\ Cardinality(Turns(NewId(2))) = 2
    /\ Partition(table, NewId(1)) # {}

-----------------------------------------------------------------------------
(* C12 as stated: when the delivery of an in_progress event fails, the turn
   goes on: the handler does not enter its except clause, and the turn that
   returns has persisted all the deliverable fragments. *)
\* A deliverable fragment was received whose in_progress post did not succeed.
DeliveryFailed == Len(assistant_chunks) < Len(SelectSeq(yielded, Deliverable))

CexC12_DeliveryFailureTolerated ==
    DeliveryFailed =>
        /\ hpc \notin {"except", "raised"}
        /\ hpc = "returned" => saved = <<Join(SelectSeq(yielded, Deliverable))>>

-----------------------------------------------------------------------------
(* C13: when the agent stream raises, the handler makes one attempt to deliver
   the error frame {type: error, error: ...}, whether or not the attempt
   succeeds the failure leaves stream_to_client_and_persist (it never
   returns), and no assistant turn is persisted for the turn. *)
ErrorFrames == SelectSeq(events, HasError)

ThmC13_StreamFailurePropagates ==
    /\ [][hpc = "except" =>
            /\ hpc' = "raised"
            /\ events' \in {events, Append(events, ErrorFrame)}]_vars
    /\ [](pc = "raised" =>
            /\ hpc \in {"except", "raised"}
            /\ saved = <<>>
            /\ AssistantTurns(session_id[owner]) = {}
            /\ agent_response = <<>>
            /\ Len(ErrorFrames) <= 1
            /\ hpc = "except" => ErrorFrames = <<>>
            /\ ErrorFrames # <<>> => events[Len(events)] = ErrorFrame)

\* The stream raised after a fragment had been delivered, and the error frame arrived.
WitC13_StreamFailurePropagates ==
    /\ pc = "raised"
    /\ hpc = "raised"
    /\ Len(events) = 3
    /\ events[2].type = "in_progress"
    /\ events[3] = ErrorFrame
    /\ saved = <<>>

-----------------------------------------------------------------------------
(* C14 as stated: every invocation that has returned has sent its client a
   terminal signal, an end_of_message or an error event of the form
   {type: error, error: ...}; stated here for the requests that carry every
   required field, in the runs in which no call to the channel or the store
   fails. *)
IsTerminalSignal(f) ==
    \/ HasType(f, "end_of_message")
    \/ HasType(f, "error") /\ HasError(f)

WellFormed(r) ==
    r.json_ok /\ r.ws_ok /\ ~Falsy(r.user_id) /\ r.user_input # <<>>

CexC14_TerminalSignal ==
    \A p \in Procs :
        (~faults /\ rpc[p] = "done" /\ WellFormed(req[p])) =>
            \E i \in 1..Len(Received(p)) : IsTerminalSignal(Received(p)[i])

-----------------------------------------------------------------------------
(* C15: a request that names a session_id with no session record is rejected
   with status 404 once the lookup has answered; the step that rejects it
   leaves the table as it is, the invocation has written nothing before it, so
   no session, user turn or assistant turn exists for it; the client is sent
   the "Session not found" notification and never a start_of_message. *)
ThmC15_SessionNotFound ==
    /\ [][\A p \in Procs :
            (rpc[p] = "session" /\ ~Falsy(session_id[p])
                /\ Partition(table, session_id[p]) = {}) =>
                    /\ status'[p] \in {404, 500}
                    /\ rpc'[p] = "done"
                    /\ table' = table]_vars
    /\ [](\A p \in Procs :
            status[p] = 404 =>
                /\ rpc[p] = "done"
                /\ req[p].session_id = session_id[p]
                /\ puts[p] = <<>>
                /\ Partition(table, session_id[p]) = {}
                /\ \A i \in 1..Len(Received(p)) :
                        ~HasType(Received(p)[i], "start_of_message")
                /\ CountOf(Received(p), ErrorPush(p, "Session not found")) <= 1
                /\ ~faults => Received(p) =
                        <<AckPush(p), ErrorPush(p, "Session not found")>>)

\* The second request of a run names an unknown session while another session exists.
WitC15_SessionNotFound ==
    /\ status[2] = 404
    /\ req[2].session_id = "s9"
    /\ table # {}
    /\ Len(client[2]) = 2
    /\ client[2][2] = ErrorPush(2, "Session not found")

-----------------------------------------------------------------------------
(* C16: a request whose body is not JSON, or that lacks user_id or user_input
   (missing or empty), is rejected in the first step of the invocation with
   status 400: the step changes neither the table nor the stream, and the
   invocation has written no session record and no turn, has read no session
   and has invoked no agent. *)
Invalid(r) == ~r.json_ok \/ r.user_id \in {NoField, ""} \/ r.user_input = <<>>

ThmC16_InvalidRequest ==
    /\ [][\A p \in Procs :
            (rpc[p] = "idle" /\ rpc'[p] # "idle" /\ Invalid(req'[p])) =>
                /\ status'[p] = 400
                /\ rpc'[p] = "done"
                /\ UNCHANGED <<table, now, owner, hpc, pc>>]_vars
    /\ [](\A p \in Procs :
            (req[p] # NoRequest /\ Invalid(req[p])) =>
                /\ status[p] = 400
                /\ rpc[p] = "done"
                /\ puts[p] = <<>>
                /\ user_session[p] = NoSession
                /\ chat_messages[p] = <<>>
                /\ owner # p
                /\ ~req[p].json_ok => client[p] = <<>>
                /\ client[p] \in {<<>>, <<ErrorPush(p, "Missing user_id or user_input")>>})

\* A request with an empty user_id arrives when a session with turns exists.
WitC16_InvalidRequest ==
    /\ status[2] = 400
    /\ req[2].json_ok
    /\ req[2].user_id = ""
    /\ client[2] = <<ErrorPush(2, "Missing user_id or user_input")>>
    /\ \E i \in table : i.role = "assistant"

-----------------------------------------------------------------------------
(* C17: a request whose agent name is none of general, curriculum, quizzer,
   reviewer is rejected with status 400 and an error notification: the step
   starts no stream and writes nothing, the client gets no start_of_message
   and the invocation persists no assistant turn; a request without an agent
   field is streamed by the general agent. *)
ThmC17_UnknownAgent ==
    /\ [][\A p \in Procs :
            (rpc[p] = "agent" /\ rpc'[p] # "agent") =>
                IF req[p].agent \in Agents \cup {NoField}
                THEN /\ rpc'[p] = "streaming"
                     /\ owner' = p
                     /\ hpc' = "start"
                     /\ agent' = (IF req[p].agent = NoField THEN "general" ELSE req[p].agent)
                ELSE /\ status'[p] = 400
                     /\ rpc'[p] = "done"
                     /\ UNCHANGED <<table, owner, hpc, pc, events>>]_vars
    /\ [](\A p \in Procs :
            (status[p] = 400 /\ WellFormed(req[p])) =>
                /\ req[p].agent \notin Agents \cup {NoField}
                /\ CountOf(puts[p], "assistant") = 0
                /\ owner # p
                /\ \A i \in 1..Len(Received(p)) :
                        ~HasType(Received(p)[i], "start_of_message")
                /\ CountOf(Received(p), ErrorPush(p, "Unknown agent")) <= 1
                /\ ~faults =>
                        Received(p)[Len(Received(p))] = ErrorPush(p, "Unknown agent"))
    /\ [](\A p \in Procs :
            (owner = p /\ req[p].agent = NoField) => agent = "general")

\* An unknown agent is rejected after the user turn of the request was saved.
WitC17_UnknownAgent ==
    /\ status[1] = 400
    /\ req[1].agent = "bogus"
    /\ puts[1] = <<"session", "user", "session">>
    /\ client[1][Len(client[1])] = ErrorPush(1, "Unknown agent")

\* A request without an agent field is being streamed.
WitC17_DefaultAgent ==
    /\ owner = 2
    /\ req[2].agent = NoField
    /\ agent = "general"
    /\ hpc = "stream"
    /\ events # <<>>

-----------------------------------------------------------------------------
(* C18 as stated: the history compiled for a turn consists of the most recent
   turns of the session, at most 2 x context_window of them, oldest first,
   each mapped to {role, content}, with the summary message in front if and
   only if the session's rolling summary is non-empty. *)
\* The last k elements of s.
LastN(s, k) == IF Len(s) <= k THEN s ELSE SubSeq(s, Len(s) - k + 1, Len(s))

RecentTurns(sid) ==
    LET recent == LastN(Ascending(Turns(sid)), 2 * CONTEXT_WINDOW)
    IN  [i \in 1..Len(recent) |-> [role |-> recent[i].role, content |-> recent[i].message]]

SummaryMessage(summary) ==
    [role |-> "user",
     content |-> <<"Here is the current summary of the session: ", summary>>]

CexC18_CompiledHistory ==
    \A p \in Procs :
        rpc[p] = "agent" =>
            chat_messages[p] =
                (IF user_session[p].session_summary # ""
                 THEN <<SummaryMessage(user_session[p].session_summary)>>
                 ELSE <<>>) \o RecentTurns(session_id[p])

-----------------------------------------------------------------------------
(* C19: in a sequence of turns the user turn is persisted before the session's
   message_count is raised: the stored count changes only by the save that
   follows a saved user turn, and then by exactly 1; a new session is created
   with count 0; a failed save of the user turn leaves the table, and so the
   count, as it was; the count never exceeds the number of user turns of the
   session and, when no call fails, equals it: N after N turns. *)
\* The message_count stored in the session record of sid in table t.
CountIn(t, sid) ==
    LET recs == {i \in Partition(t, sid) : i.title # NoTitle}
    IN  IF recs = {} THEN NoCount ELSE (CHOOSE r \in recs : TRUE).message_count

ThmC19_CountFollowsUserTurn ==
    /\ [][\A sid \in {i.PK : i \in table'} :
            CountIn(table', sid) # CountIn(table, sid) =>
                \/ /\ CountIn(table, sid) = NoCount
                   /\ CountIn(table', sid) = 0
                \/ /\ CountIn(table', sid) = CountIn(table, sid) + 1
                   /\ \E p \in Procs :
                        /\ rpc[p] = "save_count"
                        /\ session_id[p] = sid
                        /\ puts[p][Len(puts[p])] = "user"]_vars
    /\ [][\A p \in Procs :
            (rpc[p] = "save_user" /\ rpc'[p] = "done") =>
                /\ table' = table
                /\ status'[p] = 500]_vars
    /\ [](\A sid \in {i.PK : i \in table} :
            /\ Cardinality(SessionRecords(sid)) = 1
            /\ CountIn(table, sid) <= Cardinality(UserTurns(sid))
            /\ (~faults /\ \A p \in Procs : rpc[p] # "save_count") =>
                    CountIn(table, sid) = Cardinality(UserTurns(sid)))

\* The second turn on a session that the first turn of the run created.
WitC19_CountFollowsUserTurn ==
    /\ status[2] = 200
    /\ session_id[2] = NewId(1)
    /\ ~faults
    /\ CountIn(table, NewId(1)) = 2
    /\ Cardinality(UserTurns(NewId(1))) = 2

-----------------------------------------------------------------------------
(* C20: turns on one session do not exclude each other.  The session save of
   a turn stores the count the turn read plus 1, whatever the table holds by
   then; so when two concurrent turns on an existing session have read the
   same message_count and both have completed successfully, the stored count
   is that value plus 1, one less than the turns they added would make it:
   an update is lost. *)
ThmC20_LostUpdate ==
    /\ [][\A p \in Procs :
            (rpc[p] = "save_count" /\ rpc'[p] = "compile") =>
                CountIn(table', session_id[p]) = user_session[p].message_count + 1]_vars
    /\ [](\A p, q \in Procs :
            (/\ p # q
             /\ status[p] = 200
             /\ status[q] = 200
             /\ session_id[p] = session_id[q]
             /\ user_session[p].message_count = user_session[q].message_count) =>
                /\ CountIn(table, session_id[p]) = user_session[p].message_count
                /\ CountIn(table, session_id[p]) < Cardinality(UserTurns(session_id[p])))

\* Both turns have read the count before either has written it.
WitC20_BothInside ==
    /\ rpc[1] = "save_count"
    /\ rpc[2] = "save_count"
    /\ user_session[1].message_count = CountIn(table, "s1")
    /\ user_session[2].message_count = CountIn(table, "s1")

\* Both turns completed with status 200 and the count has grown by 1, not 2.
WitC20_LostUpdate ==
    /\ ~faults
    /\ status[1] = 200
    /\ status[2] = 200
    /\ session_id[1] = "s1"
    /\ session_id[2] = "s1"
    /\ Cardinality(UserTurns("s1")) = 3
    /\ Cardinality(AssistantTurns("s1")) = 3
    /\ CountIn(table, "s1") = 2

-----------------------------------------------------------------------------
(* Notions the quiz properties are stated with *)

\* The question indexes stored for a session.
StoredIndexes(sid) == {k[2] : k \in {j \in DOMAIN quiz_table : j[1] = sid}}

\* The step of caller c that starts evaluate_answer and records the answer.
AnswerStarts(c) == tpc[c] = "idle" /\ tpc'[c] = "get_session"

\* The step of caller c in which evaluate_answer writes the progress and returns.
AnswerReturns(c) ==
    tpc[c] = "update_progress" /\ tpc'[c] = "idle" /\ result'[c].kind = "ok"

\* answer(index, label) is valid: the index is the session's current one and
\* the session is in progress.
Accepted(sid, q_index) ==
    /\ sid \in DOMAIN session_table
    /\ q_index = session_table[sid].current_question
    /\ session_table[sid].state = "in_progress"

\* A step of the tool named, taken by caller c.
ToolStep(c, tool) == call'[c].tool = tool /\ <<call, result>>' # <<call, result>>

-----------------------------------------------------------------------------
(* C21 as stated: after generate_quiz_questions has succeeded for a request of
   N questions, exactly the question indexes 0..N-1 are stored for the session
   and the session record reads current_question 0, score 0, total_questions N,
   state in_progress. *)
CexC21_CreateCount ==
    \A c \in Callers :
        (call[c].tool = "generate_quiz_questions" /\ result[c].kind = "ok") =>
            LET sid == call[c].session_id
                N == call[c].num_questions
            IN  /\ StoredIndexes(sid) = 0..(N - 1)
                /\ sid \in DOMAIN session_table
                /\ session_table[sid].current_question = 0
                /\ session_table[sid].score = 0
                /\ session_table[sid].total_questions = N
                /\ session_table[sid].state = "in_progress"

-----------------------------------------------------------------------------
(* C22 as stated: an accepted answer that returns has raised the score by 1
   exactly when the two labels agree after upper-casing and trimming, has
   advanced current_question by 1, and has left the session completed exactly
   when the new index equals total_questions. *)
CexC22_AnswerAdvances ==
    [][\A c \in Callers :
          (AnswerReturns(c) /\ Accepted(call[c].session_id, call[c].q_index)) =>
              LET old == session_table[call[c].session_id]
                  new == session_table'[call[c].session_id]
                  agree == Normalized(call[c].user_answer) = Normalized(call[c].correct_answer)
              IN  /\ new.score = old.score + (IF agree THEN 1 ELSE 0)
                  /\ new.current_question = old.current_question + 1
                  /\ (new.state = "completed") <=>
                         (new.current_question = new.total_questions)]_vars

(* C22 as amended: an accepted answer that returns has raised the score by 1
   exactly when the label submitted and the correct label the caller passed
   agree after upper-casing and trimming, has reported that verdict, has
   advanced current_question by 1, and has left the session completed exactly
   when the new index is at least total_questions (in_progress otherwise). *)
ThmC22_AnswerAdvances ==
    [][\A c \in Callers :
          (AnswerReturns(c) /\ Accepted(call[c].session_id, call[c].q_index)) =>
              LET old == session_table[call[c].session_id]
                  new == session_table'[call[c].session_id]
                  agree == Normalized(call[c].user_answer) = Normalized(call[c].correct_answer)
              IN  /\ new.score = old.score + (IF agree THEN 1 ELSE 0)
                  /\ result'[c].is_correct = agree
                  /\ new.current_question = old.current_question + 1
                  /\ new.total_questions = old.total_questions
                  /\ new.state = IF new.current_question >= new.total_questions
                                 THEN "completed" ELSE "in_progress"]_vars

\* Two correct answers in a row on a quiz of two questions: completed, score 2.
WitC22_AnswerAdvances ==
    /\ "z1" \in DOMAIN session_table
    /\ session_table["z1"].total_questions = 2
    /\ session_table["z1"].current_question = 2
    /\ session_table["z1"].score = 2
    /\ session_table["z1"].state = "completed"
    /\ call[1].tool = "evaluate_answer"
    /\ call[1].q_index = 1
    /\ call[1].user_answer # call[1].correct_answer
    /\ result[1].kind = "ok"

-----------------------------------------------------------------------------
(* C23 as stated: an answer whose index is not the session's current index, or
   whose session is not in progress, is rejected: it changes neither the
   stored questions nor the session. *)
CexC23_StaleRejected ==
    [][\A c \in Callers :
          (/\ tpc[c] = "idle"
           /\ call'[c].tool = "evaluate_answer"
           /\ <<call, result, tpc>>' # <<call, result, tpc>>
           /\ ~Accepted(call'[c].session_id, call'[c].q_index)) =>
              (quiz_table' = quiz_table /\ session_table' = session_table)]_vars

-----------------------------------------------------------------------------
(* C24 as stated: once a session is completed, its state, score and
   current_question never change again. *)
CexC24_CompletedTerminal ==
    [][\A sid \in DOMAIN session_table :
          session_table[sid].state = "completed" =>
              /\ sid \in DOMAIN session_table'
              /\ session_table'[sid].state = "completed"
              /\ session_table'[sid].score = session_table[sid].score
              /\ session_table'[sid].current_question =
                     session_table[sid].current_question]_vars

-----------------------------------------------------------------------------
(* C25 as stated: the answer attributes of a question (user_answer,
   score_status, answered_at), once written, are never written again. *)
CexC25_AnswerWrittenOnce ==
    [][\A k \in DOMAIN quiz_table :
          quiz_table[k].score_status # "" =>
              /\ k \in DOMAIN quiz_table'
              /\ quiz_table'[k].user_answer = quiz_table[k].user_answer
              /\ quiz_table'[k].score_status = quiz_table[k].score_status
              /\ quiz_table'[k].answered_at = quiz_table[k].answered_at]_vars

-----------------------------------------------------------------------------
(* C26: db_get_session changes neither table; when get_item answers, it
   returns an error value for a session that is not stored and otherwise the
   stored current_question, score, total_questions and state. *)
ThmC26_StatusReadOnly ==
    [][\A c \in Callers :
          ToolStep(c, "db_get_session") =>
              /\ quiz_table' = quiz_table
              /\ session_table' = session_table
              /\ result'[c].kind \in {"ok", "error", "raised"}
              /\ result'[c].kind = "raised" => faults
              /\ result'[c].kind = "error" => call'[c].session_id \notin DOMAIN session_table
              /\ result'[c].kind = "ok" =>
                     /\ call'[c].session_id \in DOMAIN session_table
                     /\ LET item == session_table[call'[c].session_id] IN
                        /\ result'[c].current_question = item.current_question
                        /\ result'[c].score = item.score
                        /\ result'[c].total_questions = item.total_questions
                        /\ result'[c].state = item.state]_vars

\* The status of a session in which one question has been answered.
WitC26_StatusReadOnly ==
    /\ call[1].tool = "db_get_session"
    /\ result[1].kind = "ok"
    /\ result[1].current_question = 1
    /\ result[1].total_questions = 2
    /\ result[1].state = "in_progress"

\* The status of a session that is not stored.
WitC26_Missing ==
    /\ call[1].tool = "db_get_session"
    /\ result[1].kind = "error"
    /\ session_table = NoItems

-----------------------------------------------------------------------------
(* C27: get_curriculum_context never ends in an exception: it returns a
   payload.  The payload says success only when the inner stream has been read
   to its end, and then carries the response without its thinking spans; when
   the call ended before the end of the stream, or the agent could not be
   created, the payload says error. *)

\* The characters of text from position i on that lie in none of the spans S.
RECURSIVE KeepOutside(_, _)
KeepOutside(S, i) ==
    IF i > Len(text) THEN <<>>
    ELSE (IF i \in S THEN <<>> ELSE <<text[i]>>) \o KeepOutside(S, i + 1)

\* The response without its thinking spans.
Visible == LET S == SpanPositions IN KeepOutside(S, 1)

ContextReturned(c) == call[c].tool = "get_curriculum_context" /\ tpc[c] = "idle"

ThmC27_ContextCall ==
    \A c \in Callers :
        ContextReturned(c) =>
            /\ result[c].kind = "payload"
            /\ result[c].status \in {"success", "error"}
            /\ result[c].status = "success" =>
                   (pos = Len(text) /\ result[c].curriculum_response = Visible)
            /\ pos < Len(text) => result[c].status = "error"
            /\ result[c].status = "error" => faults

\* "<thinking>hidden</thinking>visible" read to its end: "visible" is returned.
WitC27_ContextCall ==
    /\ ContextReturned(1)
    /\ text = HiddenVisible
    /\ result[1].status = "success"
    /\ result[1].curriculum_response = <<"v", "i", "s", "i", "b", "l", "e">>

\* The inner stream fails after its first fragments.
WitC27_InnerFailure ==
    /\ ContextReturned(1)
    /\ pos > 0
    /\ pos < Len(text)
    /\ result[1].status = "error"

-----------------------------------------------------------------------------
(* C28: retrieve_from_kb never ends in an exception: it returns a payload,
   with status error when the retrieval service fails, and with status success
   and one entry per retrieved result, in order, holding the result's content
   and its score to three decimals, when the service answers with well-formed
   results (none included). *)
ThmC28_RetrieveNeverThrows ==
    \A c \in Callers :
        call[c].tool = "retrieve_from_kb" =>
            LET response == call[c].response IN
            /\ result[c].kind = "payload"
            /\ result[c].status \in {"success", "error"}
            /\ response.kind = "raise" => result[c].status = "error"
            /\ (/\ response.kind = "results"
                /\ \A i \in 1..Len(response.retrievalResults) :
                       response.retrievalResults[i].content # NoField)
                   => result[c].status = "success"
            /\ result[c].status = "success" =>
                   /\ response.kind = "results"
                   /\ Len(result[c].results) = Len(response.retrievalResults)
                   /\ \A i \in 1..Len(result[c].results) :
                          /\ result[c].results[i].content =
                                 response.retrievalResults[i].content
                          /\ result[c].results[i].score - response.retrievalResults[i].score
                                 \in -5..5

\* Two results come back, the first with score 0.8123, reported as 0.812.
WitC28_RetrieveNeverThrows ==
    /\ call[1].tool = "retrieve_from_kb"
    /\ result[1].status = "success"
    /\ Len(result[1].results) = 2
    /\ result[1].results[1] = [score |-> 8120, content |-> "k"]

\* The service fails.
WitC28_ServiceFails ==
    /\ call[1].tool = "retrieve_from_kb"
    /\ call[1].response.kind = "raise"
    /\ result[1] = ErrorPayload

\* The service finds nothing.
WitC28_NoResults ==
    /\ call[1].tool = "retrieve_from_kb"
    /\ result[1].status = "success"
    /\ result[1].results = <<>>

-----------------------------------------------------------------------------
(* C29 as stated: no call of a tool of the quiz orchestrator ends in an
   exception that leaves the tool. *)
CexC29_NoUnhandledThrow ==
    \A c \in Callers : result[c].kind # "raised"

-----------------------------------------------------------------------------
(* C30 as stated: every save of a user or assistant turn adds a record of its
   own to the session and leaves the turns saved before as they are: the
   session holds as many turns as it held at the start plus one for each turn
   that an invocation has saved. *)

\* The number of turns the invocations 1..n have saved.
RECURSIVE TurnsSaved(_)
TurnsSaved(n) ==
    IF n = 0 THEN 0
    ELSE CountOf(puts[n], "user") + CountOf(puts[n], "assistant") + TurnsSaved(n - 1)

CexC30_TurnsDistinct ==
    Cardinality(Turns("s1")) =
        Cardinality({i \in S1Table : i.role \in {"user", "assistant"}})
            + TurnsSaved(MaxRequests)

-----------------------------------------------------------------------------
(* C31: for every response and every fragmentation of it, the concatenated
   output of the filter is the result of one left-to-right scan of the whole
   response: copy up to the next open tag, skip from it through the next close
   tag (to the end when there is none), and repeat.  Several spans, an open tag
   inside a span and a close tag outside a span are covered. *)

\* The scan of s from offset k on.
RECURSIVE RefScan(_, _)
RefScan(s, k) ==
    LET o == NextOcc(OpenTag, s, k) IN
    IF o = -1 THEN From(s, k)
    ELSE SubSeq(s, k + 1, o) \o
         (LET c == NextOcc(CloseTag, s, o + Len(OpenTag)) IN
          IF c = -1 THEN <<>> ELSE RefScan(s, c + Len(CloseTag)))

ThmC31_ReferenceScan ==
    (pc = "ended" /\ agent \in PlainAgents) => out = RefScan(text, 0)

\* Two spans.
WitC31_ReferenceScan ==
    /\ pc = "ended"
    /\ agent = "curriculum"
    /\ text = TwoSpans
    /\ out = <<"a", "c", "e">>

\* An open tag inside a span: "<thinking><thinking></thinking>" gives "".
WitC31_OpenInside ==
    /\ pc = "ended"
    /\ agent = "curriculum"
    /\ text = OpenTag \o OpenTag \o CloseTag
    /\ out = <<>>
    /\ ~inside_thinking

\* A close tag outside a span is copied.
WitC31_StrayClose ==
    /\ pc = "ended"
    /\ agent = "curriculum"
    /\ text = CloseTag \o OpenTag \o CloseTag
    /\ out = CloseTag

-----------------------------------------------------------------------------
(* C34 as stated: the concatenation of the fragments emitted for a stream never
   contains the open tag, letters compared without case. *)
CexC34_NoOpenTagInOutput ==
    Occs(OpenTag, out) = {}

-----------------------------------------------------------------------------
(* C35: the text get_curriculum_context assembles from a reply equals the
   concatenation of what stream_async emits for the same reply, whatever the
   fragments are in which each of them reads it. *)
ThmC35_SameAsStreaming ==
    \A c \in Callers :
        (ContextReturned(c) /\ result[c].status = "success") =>
            (pc = "ended" /\ result[c].curriculum_response = out)

\* "<thinking>ab</thI</thinking>c" gives "c" both ways.
WitC35_SameAsStreaming ==
    /\ ContextReturned(1)
    /\ result[1].status = "success"
    /\ text = PartialClose
    /\ pc = "ended"
    /\ out = <<"c">>
    /\ result[1].curriculum_response = <<"c">>

\* A reply longer than what is held back, with an unfinished open tag at its end.
WitC35_HeldBack ==
    /\ ContextReturned(1)
    /\ result[1].status = "success"
    /\ text = CloseTag \o <<"<", "T", "h", "i", "n", "k">>
    /\ result[1].curriculum_response = text

-----------------------------------------------------------------------------
(* C32 as stated: the correctness recorded for an answered question is decided
   by the correct label stored with that question: a stored question that has
   been answered is marked correct exactly when the submitted label, upper-cased
   and stripped, is the stored correct label, upper-cased and stripped. *)
CexC32_VerdictFromStore ==
    \A k \in DOMAIN quiz_table :
        LET item == quiz_table[k] IN
        (item.question # NoField /\ item.answered_at # NoTime) =>
            (item.score_status = "correct"
                <=> Strip(item.user_answer) = Normalized(item.correct))

-----------------------------------------------------------------------------
(* C38 as stated: no step of evaluate_answer, called for a session_id the
   session table holds no record of, changes the question table or the session
   table. *)
CexC38_MissingSessionUntouched ==
    [][\A c \in Callers :
          (ToolStep(c, "evaluate_answer") /\ call'[c].session_id \notin DOMAIN session_table)
              => (quiz_table' = quiz_table /\ session_table' = session_table)]_vars

-----------------------------------------------------------------------------
(* C39 as stated: when two invocations have each made one evaluate_answer call
   on the same quiz session and both calls have returned, the session's
   current_question has advanced by 2 and its score has risen by the number of
   correct answers among the two, however their steps interleaved. *)
CexC39_BothTakeEffect ==
    (/\ now = 4
     /\ \A c \in Callers :
            /\ tpc[c] = "idle"
            /\ call[c].tool = "evaluate_answer"
            /\ result[c].kind = "ok")
        => /\ session_table["z1"].current_question = 2
           /\ session_table["z1"].score =
                  Cardinality({c \in Callers : result[c].is_correct})

-----------------------------------------------------------------------------
(* C36 as stated: the frames delivered for one turn never hold both an
   end_of_message and an error frame. *)
CexC36_EndExcludesError ==
    ~(/\ \E i \in 1..Len(events) : events[i].type = "end_of_message"
      /\ \E j \in 1..Len(events) : events[j].type = "error")

-----------------------------------------------------------------------------
(* C40 as stated: an invocation whose request names a session recorded for
   another user_id is rejected: it persists nothing, compiles no history and
   does not return 200. *)
CexC40_OwnerOnly ==
    \A p \in Procs :
        (/\ WellFormed(req[p])
         /\ ~Falsy(req[p].session_id)
         /\ \E i \in SessionRecords(req[p].session_id) : i.user_id # req[p].user_id)
            => /\ puts[p] = <<>>
               /\ chat_messages[p] = <<>>
               /\ rpc[p] \in {"session", "done"}
               /\ status[p] # 200

-----------------------------------------------------------------------------
(* C33 as stated: every entry of the history compiled for a session has role
   user or assistant; the session record is never one of them. *)
CexC33_HistoryOnlyTurns ==
    \A p \in Procs :
        \A i \in 1..Len(chat_messages[p]) :
            chat_messages[p][i].role \in {"user", "assistant"}

-----------------------------------------------------------------------------
(* C37: the agent name is checked last.  A well-formed request is answered
   with 400 only by the step that follows the compilation of the history, and
   that step writes nothing; when such a request named no session, the
   invocation has by then created the session record, saved the user turn and
   raised the session's message_count to 1, and has saved no assistant turn. *)
ThmC37_AgentCheckedLast ==
    /\ [][\A p \in Procs :
            (status'[p] = 400 /\ status[p] # 400 /\ WellFormed(req'[p])) =>
                /\ rpc[p] = "agent"
                /\ req[p].agent \notin Agents \cup {NoField}
                /\ table' = table]_vars
    /\ [](\A p \in Procs :
            (status[p] = 400 /\ WellFormed(req[p]) /\ Falsy(req[p].session_id)) =>
                LET sid == session_id[p] IN
                /\ puts[p] = <<"session", "user", "session">>
                /\ Cardinality(SessionRecords(sid)) = 1
                /\ \A i \in SessionRecords(sid) :
                       i.message_count = 1 /\ i.user_id = req[p].user_id
                /\ Cardinality(UserTurns(sid)) = 1
                /\ \A i \in UserTurns(sid) :
                       i.message = req[p].user_input /\ i.user_id = req[p].user_id
                /\ AssistantTurns(sid) = {}
                /\ chat_messages[p] # <<>>)

\* The first request of a run names the agent "bogus" and no session.
WitC37_AgentCheckedLast ==
    /\ status[1] = 400
    /\ req[1].agent = "bogus"
    /\ req[1].session_id = NoField
    /\ session_id[1] = "u1-a"
    /\ puts[1] = <<"session", "user", "session">>
    /\ CountIn(table, "u1-a") = 1
    /\ Cardinality(UserTurns("u1-a")) = 1

====
